---- MODULE Spec2Model ----
(***************************************************************************)
(* A model of the WeChat article collector: the article parser             *)
(* (src/src/article_parser.py), the Markdown converter                     *)
(* (src/src/markdown_converter.py), the file manager                       *)
(* (src/src/file_manager.py), the article discovery                        *)
(* (src/src/wechat_profile_parser.py) and the front end with the           *)
(* collection worker that drives them (src/src/gui_app.py).                *)
(*                                                                         *)
(* Text is modelled as a sequence of one-character strings, so that the    *)
(* regular-expression substitutions, prefix tests and joins of the code    *)
(* are computed on the characters and not assumed.                         *)
(***************************************************************************)
EXTENDS Integers, Sequences, FiniteSets, TLC

(***************************************************************************)
(* Bounds of the model.                                                    *)
(***************************************************************************)
\* longest text handed to the cleanup pass on its own
MaxTextLen == 5
\* longest transcoded body text
MaxBodyLen == 3
\* longest raw text of a title or author element
MaxFieldLen == 2
\* most child elements of the content of a page
MaxElems == 1

\* the longest list of image URLs given to the download loop on its own
MaxImages == 2

\* the most image elements of a tree given to the image resolver on its own
MaxImgTags == 2

\* the longest tail of a title given to _generate_filename on its own
MaxTitleLen == 3

\* the most recommendation elements, and the most embedded items, of a page
MaxLinks == 2

\* the most summaries asked of the discovery
MaxCount == 2

\* the most conversions into one output directory
MaxRuns == 2

\* the most worker threads started in one session of the front end
MaxWorkers == 2

\* the most articles saved into one output directory
MaxSaves == 2

(***************************************************************************)
(* The state.  Ten machines share the module: the cleanup pass, the tail   *)
(* of convert_to_markdown, the download loop, the image resolver, the      *)
(* file name, the saving, the article discovery, the front end with its    *)
(* worker threads and the conversions into one directory, each on its      *)
(* own, and one whole conversion.  A specification runs one of them and    *)
(* leaves the others idle.                                                 *)
(***************************************************************************)
\* the cleanup pass on its own
VARIABLES
    cpc,        \* "idle" | "input" | "once" | "twice"
    ctext,      \* the text handed to the cleanup pass
    cout1,      \* _clean_markdown(ctext)
    cout2       \* _clean_markdown(cout1)

cleanVars == <<cpc, ctext, cout1, cout2>>

\* the tail of convert_to_markdown on its own
VARIABLES
    dpc,        \* "idle" | "body" | "meta" | "done"
    dinfo,      \* article_info: url, title, author, publish_time
    dbody,      \* markdown_content, the output of h2t.handle
    dmeta,      \* markdown_with_meta
    ddoc        \* final_markdown

docVars == <<dpc, dinfo, dbody, dmeta, ddoc>>

\* one conversion
VARIABLES
    pc,             \* where the worker is
    page,           \* what the fetch of the article URL gives
    soup,           \* the parsed tree, sanitized in place
    article_info,   \* the record parse_article builds
    images_dir,     \* whether output_dir/images exists
    files,          \* the files of output_dir/images: filename -> what it holds
    updated_html,   \* the markup, its image links rewritten so far
    idx,            \* the index of the next image in the download loop
    results,        \* the local filename of every image tried, <<>> for None
    doc,            \* the Markdown document convert_to_markdown returns
    saved,          \* whether save_article wrote the .md file
    result          \* "none" | "success" | "error"

pipeVars == <<pc, page, soup, article_info, images_dir, files, updated_html, idx,
              results, doc, saved, result>>

\* The download loop on its own (_download_and_update_images).
VARIABLES
    ipc,            \* "idle" | "loop" | "returned"
    html_content,   \* the markup the loop is given
    image_urls,     \* the list of image URLs the loop is given
    ihtml,          \* updated_html of the loop
    inext,          \* the index of the next image
    responses,      \* what the fetch of every image tried so far answered
    ifiles,         \* the files of the images directory: filename -> what it holds
    local_filenames \* what _download_image returned for every image tried, <<>> for None

imgVars == <<ipc, html_content, image_urls, ihtml, inext, responses, ifiles, local_filenames>>

\* The file name of an article on its own (_generate_filename).
VARIABLES
    npc,            \* "idle" | "input" | "named"
    ntitle,         \* article_info['title']
    nnow,           \* what datetime.now() gives, formatted
    nfilename       \* the file name returned

nameVars == <<npc, ntitle, nnow, nfilename>>

\* Saving articles into one output directory (save_article).
VARIABLES
    spc,            \* "idle" | "ready" | "probe" | "write" | "raised"
    directory,      \* the files of the output directory
    sfilename,      \* the file name _generate_filename gave
    counter,        \* the counter of _get_unique_filepath
    filepath,       \* the path _get_unique_filepath returned, <<>> before
    swritten,       \* the paths this machine wrote, in order
    nsaved          \* the number of save_article calls begun

saveVars == <<spc, directory, sfilename, counter, filepath, swritten, nsaved>>

\* The image resolver on its own (_extract_images).
VARIABLES
    rpc,            \* "idle" | "input" | "resolved"
    rsoup,          \* the tree the resolver is given
    rimages         \* the list it returns

resVars == <<rpc, rsoup, rimages>>

\* The front end and its worker threads (gui_app.py).
VARIABLES
    is_working,     \* self.is_working
    collect_button, \* the state of the start button: "normal" | "disabled"
    stop_button,    \* the state of the stop button
    window,         \* "none" | "open" | "closed"
    callbacks,      \* the collection_finished calls queued by root.after
    workers         \* the worker threads started, in the order of their start

guiVars == <<is_working, collect_button, stop_button, window, callbacks, workers>>

GuiIdle ==
    /\ is_working = FALSE /\ collect_button = "none" /\ stop_button = "none"
    /\ window = "none" /\ callbacks = 0 /\ workers = <<>>

\* The article discovery on its own (parse_profile_articles).
VARIABLES
    lpc,            \* "idle" | "input" | "returned" | "raised"
    profile_url,    \* the seed
    max_count,      \* the most summaries asked for
    lpage,          \* what the fetch of the seed gives
    summaries       \* the list returned

listVars == <<lpc, profile_url, max_count, lpage, summaries>>

ListIdle ==
    /\ lpc = "idle" /\ profile_url = <<>> /\ max_count = 0 /\ lpage = <<>>
    /\ summaries = <<>>

\* Conversions one after the other into one output directory.
VARIABLES
    opc,            \* "idle" | "ready" | "loop"
    conversion,     \* the number of conversions begun
    output_images,  \* output_dir/images: filename -> the bytes the file holds
    run_urls,       \* the image list of the conversion under way
    run_next,       \* the index of its next image
    run_refs,       \* the local images its markup references so far
    documents       \* the documents saved: the local images each references

runVars == <<opc, conversion, output_images, run_urls, run_next, run_refs, documents>>

RunsIdle ==
    /\ opc = "idle" /\ conversion = 0 /\ output_images = <<>> /\ run_urls = <<>>
    /\ run_next = 0 /\ run_refs = {} /\ documents = <<>>

ResolveIdle == rpc = "idle" /\ rsoup = <<>> /\ rimages = <<>>

ImagesIdle ==
    /\ ipc = "idle" /\ html_content = <<>> /\ image_urls = <<>> /\ ihtml = <<>>
    /\ inext = 0 /\ responses = <<>> /\ ifiles = <<>> /\ local_filenames = <<>>

NameIdle == npc = "idle" /\ ntitle = <<>> /\ nnow = <<>> /\ nfilename = <<>>

SaveIdle ==
    /\ spc = "idle" /\ directory = <<>> /\ sfilename = <<>> /\ counter = 0
    /\ filepath = <<>> /\ swritten = <<>> /\ nsaved = 0

(***************************************************************************)
(* Characters and generic text helpers.                                    *)
(***************************************************************************)
NL == "\n"
SP == " "
TAB == "\t"

\* the characters Python's \s and str.strip()/rstrip() treat as whitespace
Whitespace == {NL, SP, TAB}

Max(S) == CHOOSE x \in S : \A y \in S : y <= x
Min(S) == CHOOSE x \in S : \A y \in S : x <= y

\* all sequences over S of length at most n
SeqsUpTo(S, n) == UNION {[1..k -> S] : k \in 0..n}

\* t[i..j] are all whitespace (true of the empty range)
AllSpace(t, i, j) == \A k \in i..j : t[k] \in Whitespace

\* str.startswith
StartsWith(t, p) == Len(t) >= Len(p) /\ SubSeq(t, 1, Len(p)) = p

\* the pattern p occurs in t at position i
OccursAt(t, p, i) == i >= 1 /\ i + Len(p) - 1 <= Len(t) /\ SubSeq(t, i, i + Len(p) - 1) = p

\* p is a substring of t
Contains(t, p) == \E i \in 1..(Len(t) + 1) : OccursAt(t, p, i)

\* re.sub(literal pattern p, replacement r, t): leftmost, non-overlapping
RECURSIVE ReSubFrom(_, _, _, _)
ReSubFrom(t, p, r, i) ==
    LET hits == {k \in i..(Len(t) - Len(p) + 1) : t[k] = p[1] /\ OccursAt(t, p, k)}
    IN IF hits = {} THEN SubSeq(t, i, Len(t))
       ELSE SubSeq(t, i, Min(hits) - 1) \o r \o ReSubFrom(t, p, r, Min(hits) + Len(p))

ReSub(p, r, t) == ReSubFrom(t, p, r, 1)

\* the k-th smallest element of a set of numbers
Nth(S, k) == CHOOSE x \in S : Cardinality({y \in S : y <= x}) = k

\* str.split('\n'): the pieces between the newlines, always at least one
\* (possibly empty) piece
SplitLines(t) ==
    LET nls == {k \in 1..Len(t) : t[k] = NL}
        n == Cardinality(nls)
        from(k) == IF k = 1 THEN 1 ELSE Nth(nls, k - 1) + 1
        to(k) == IF k = n + 1 THEN Len(t) ELSE Nth(nls, k) - 1
    IN [k \in 1..(n + 1) |-> SubSeq(t, from(k), to(k))]

\* '\n'.join(lines)
RECURSIVE JoinLines(_)
JoinLines(lines) ==
    IF Len(lines) = 0 THEN <<>>
    ELSE IF Len(lines) = 1 THEN lines[1]
    ELSE lines[1] \o <<NL>> \o JoinLines(Tail(lines))

\* str.rstrip()
RECURSIVE RStrip(_)
RStrip(t) ==
    IF Len(t) = 0 THEN t
    ELSE IF t[Len(t)] \in Whitespace THEN RStrip(SubSeq(t, 1, Len(t) - 1))
    ELSE t

\* str.lstrip()
RECURSIVE LStrip(_)
LStrip(t) ==
    IF Len(t) = 0 THEN t
    ELSE IF t[1] \in Whitespace THEN LStrip(Tail(t))
    ELSE t

\* str.strip()
Strip(t) == LStrip(RStrip(t))

(***************************************************************************)
(* MarkdownConverter._clean_markdown                                       *)
(***************************************************************************)
\* Where a match of \n\s*\n\s*\n starting at i ends (0: no match at i).
\* Both \s* are greedy: the first takes the latest second newline that
\* still leaves a third one, the second the latest third newline.
BlankMatchEnd(t, i) ==
    IF t[i] # NL THEN 0
    ELSE LET thirds(j) == {k \in (j + 1)..Len(t) : t[k] = NL /\ AllSpace(t, j + 1, k - 1)}
             seconds == {j \in (i + 1)..Len(t) :
                            t[j] = NL /\ AllSpace(t, i + 1, j - 1) /\ thirds(j) # {}}
         IN IF seconds = {} THEN 0 ELSE Max(thirds(Max(seconds)))

\* re.sub(r'\n\s*\n\s*\n', '\n\n', markdown_content)
RECURSIVE CollapseFrom(_, _)
CollapseFrom(t, i) ==
    LET hits == {k \in i..Len(t) : BlankMatchEnd(t, k) > 0}
    IN IF hits = {} THEN SubSeq(t, i, Len(t))
       ELSE SubSeq(t, i, Min(hits) - 1) \o <<NL, NL>>
            \o CollapseFrom(t, BlankMatchEnd(t, Min(hits)) + 1)

CollapseBlankLines(t) == CollapseFrom(t, 1)

\* lines.append(line.rstrip()) for every line
RStripLines(lines) == [k \in 1..Len(lines) |-> RStrip(lines[k])]

\* mutant: the trailing blank lines are kept
KeepTrailingBlank(lines) == lines

\* while lines and not lines[-1].strip(): lines.pop()
RECURSIVE PopTrailingBlank(_)
PopTrailingBlank(lines) ==
    IF Len(lines) > 0 /\ Strip(lines[Len(lines)]) = <<>>
    THEN PopTrailingBlank(SubSeq(lines, 1, Len(lines) - 1))
    ELSE lines

\* if lines: lines.append('')
EnsureFinalNewline(lines) == IF Len(lines) > 0 THEN Append(lines, <<>>) ELSE lines

CleanMarkdown(t) ==
    JoinLines(EnsureFinalNewline(PopTrailingBlank(RStripLines(SplitLines(CollapseBlankLines(t))))))

(***************************************************************************)
(* The cleanup pass on its own: a text, cleaned once and cleaned again.    *)
(***************************************************************************)
TextAlphabet == {NL, SP, "a"}

CleanIdle == cpc = "idle" /\ ctext = <<>> /\ cout1 = <<>> /\ cout2 = <<>>

CleanInit ==
    /\ cpc = "input"
    /\ ctext \in SeqsUpTo(TextAlphabet, MaxTextLen)
    /\ cout1 = <<>>
    /\ cout2 = <<>>

CleanOnce ==
    /\ cpc = "input"
    /\ cout1' = CleanMarkdown(ctext)
    /\ cpc' = "once"
    /\ UNCHANGED <<ctext, cout2>>
    /\ UNCHANGED <<docVars, pipeVars, imgVars, nameVars, saveVars, resVars, guiVars, listVars, runVars>>

CleanTwice ==
    /\ cpc = "once"
    /\ cout2' = CleanMarkdown(cout1)
    /\ cpc' = "twice"
    /\ UNCHANGED <<ctext, cout1>>
    /\ UNCHANGED <<docVars, pipeVars, imgVars, nameVars, saveVars, resVars, guiVars, listVars, runVars>>

(***************************************************************************)
(* Properties of the cleanup pass.                                         *)
(***************************************************************************)
\* the lines of a text, a final newline terminating the last line
LinesOf(t) ==
    LET ls == SplitLines(t)
    IN IF ls[Len(ls)] = <<>> THEN SubSeq(ls, 1, Len(ls) - 1) ELSE ls

IsBlank(line) == Strip(line) = <<>>

\* two neighbouring lines of t are both blank
HasBlankRun(t) ==
    LET ls == LinesOf(t)
    IN \E k \in 1..(Len(ls) - 1) : IsBlank(ls[k]) /\ IsBlank(ls[k + 1])

\* C3: the cleanup pass is idempotent: cleaning a cleaned text changes nothing.
C3_CleanupIdempotent == cpc = "twice" => cout2 = cout1

\* C3 witness: a text the first pass really changed (a run of blank lines
\* collapsed, trailing blanks dropped) has been cleaned twice.
C3_Witness ==
    /\ cpc = "twice"
    /\ cout1 # ctext
    /\ \E i \in 1..Len(ctext) : BlankMatchEnd(ctext, i) > 0
    /\ Len(cout1) > 0

RECURSIVE CollapseSpaceFrom(_, _)
CollapseSpaceFrom(t, i) ==
    IF i > Len(t) THEN <<>>
    ELSE IF t[i] \in Whitespace
         THEN LET rest == {k \in i..Len(t) : t[k] \notin Whitespace}
                  e == IF rest = {} THEN Len(t) + 1 ELSE Min(rest)
              IN <<SP>> \o CollapseSpaceFrom(t, e)
         ELSE <<t[i]>> \o CollapseSpaceFrom(t, i + 1)

CleanText(t) == IF t = <<>> THEN <<>> ELSE Strip(CollapseSpaceFrom(t, 1))

(***************************************************************************)
(* MarkdownConverter._add_metadata_header                                  *)
(***************************************************************************)
Quote == "\""
Delimiter == <<"-", "-", "-">>
KeyTitle == <<"t", "i", "t", "l", "e", ":", SP>>
KeyAuthor == <<"a", "u", "t", "h", "o", "r", ":", SP>>
KeyDate == <<"d", "a", "t", "e", ":", SP>>
KeySource == <<"s", "o", "u", "r", "c", "e", ":", SP>>

\* f"key: \"{value}\""
MetaLine(key, value) == key \o <<Quote>> \o value \o <<Quote>>

\* mutant: the date line is written whether or not a publish time was found
MetadataLinesAlwaysDate(info) ==
    <<Delimiter,
      MetaLine(KeyTitle, info.title),
      MetaLine(KeyAuthor, info.author),
      MetaLine(KeyDate, info.publish_time),
      MetaLine(KeySource, info.url),
      Delimiter,
      <<>> >>

\* metadata_lines, as built before the join
MetadataLines(info) ==
    <<Delimiter,
      MetaLine(KeyTitle, info.title),
      MetaLine(KeyAuthor, info.author)>>
    \o (IF info.publish_time # <<>> THEN <<MetaLine(KeyDate, info.publish_time)>> ELSE <<>>)
    \o <<MetaLine(KeySource, info.url),
         Delimiter,
         <<>> >>

\* "\n".join(metadata_lines) + markdown_content
AddMetadataHeader(info, markdown_content) ==
    JoinLines(MetadataLines(info)) \o markdown_content

(***************************************************************************)
(* The tail of convert_to_markdown on its own: the transcoded body text    *)
(* gets its metadata header and is cleaned.  The body text is the output   *)
(* of the html2text library, which is not part of the repository: it is    *)
(* any text over the alphabet.                                             *)
(***************************************************************************)
\* the sentinels of _extract_title and _extract_author (four and four
\* Chinese characters in the source, transliterated)
UnknownTitle == <<"wei", "zhi", "biao", "ti">>
UnknownAuthor == <<"wei", "zhi", "zuo", "zhe">>

\* what an element's get_text() can be
FieldAlphabet == {"T", Quote, SP, NL}
RawFieldTexts == SeqsUpTo(FieldAlphabet, MaxFieldLen)

\* the titles _extract_title can return: a cleaned, non-empty text or the sentinel
Titles == ({CleanText(Strip(r)) : r \in RawFieldTexts} \ {<<>>}) \cup {UnknownTitle}
Authors == {<<"A">>, UnknownAuthor}

\* the publish times _extract_publish_time can return: a matched date or ''
IsoDate == <<"2", "0", "2", "3", "-", "0", "1", "-", "0", "1">>
PublishTimes == {<<>>, IsoDate}

SourceUrl == <<"h", "t", "t", "p", "s", ":", "/", "/", "h", "/", "s", "/", "x">>

DocIdle == dpc = "idle" /\ dinfo = <<>> /\ dbody = <<>> /\ dmeta = <<>> /\ ddoc = <<>>

DocInit ==
    /\ dpc = "body"
    /\ dinfo \in [url : {SourceUrl}, title : Titles, author : Authors,
                  publish_time : PublishTimes]
    /\ dbody \in SeqsUpTo(TextAlphabet, MaxBodyLen)
    /\ dmeta = <<>>
    /\ ddoc = <<>>

\* markdown_with_meta = self._add_metadata_header(article_info, markdown_content)
DocAddHeader ==
    /\ dpc = "body"
    /\ dmeta' = AddMetadataHeader(dinfo, dbody)
    /\ dpc' = "meta"
    /\ UNCHANGED <<dinfo, dbody, ddoc>>
    /\ UNCHANGED <<cleanVars, pipeVars, imgVars, nameVars, saveVars, resVars, guiVars, listVars, runVars>>

\* final_markdown = self._clean_markdown(markdown_with_meta)
DocClean ==
    /\ dpc = "meta"
    /\ ddoc' = CleanMarkdown(dmeta)
    /\ dpc' = "done"
    /\ UNCHANGED <<dinfo, dbody, dmeta>>
    /\ UNCHANGED <<cleanVars, pipeVars, imgVars, nameVars, saveVars, resVars, guiVars, listVars, runVars>>

(***************************************************************************)
(* Properties of the metadata block.                                       *)
(***************************************************************************)
\* the index of the closing delimiter line: the first delimiter after line 1
ClosingDelimiter(lines) == Min({k \in 2..Len(lines) : lines[k] = Delimiter})

\* C2 (as claimed): in the returned document the closing delimiter line is
\* followed by exactly one blank line and then the first line of body text,
\* whatever the transcoded body text is.
C2_OneBlankLineAfterHeader ==
    (dpc = "done" /\ Strip(dbody) # <<>>) =>
        LET ls == LinesOf(ddoc)
            c == ClosingDelimiter(ls)
        IN /\ Len(ls) >= c + 2
           /\ IsBlank(ls[c + 1])
           /\ ~IsBlank(ls[c + 2])

\* the metadata block the claim describes, line by line
ExpectedBlock(info) ==
    IF info.publish_time # <<>>
    THEN <<Delimiter,
           KeyTitle \o <<Quote>> \o info.title \o <<Quote>>,
           KeyAuthor \o <<Quote>> \o info.author \o <<Quote>>,
           KeyDate \o <<Quote>> \o info.publish_time \o <<Quote>>,
           KeySource \o <<Quote>> \o info.url \o <<Quote>>,
           Delimiter>>
    ELSE <<Delimiter,
           KeyTitle \o <<Quote>> \o info.title \o <<Quote>>,
           KeyAuthor \o <<Quote>> \o info.author \o <<Quote>>,
           KeySource \o <<Quote>> \o info.url \o <<Quote>>,
           Delimiter>>

\* C5: the metadata block is, in this order, the opening delimiter, the
\* title, the author, the date if and only if a publish time was found, the
\* source and the closing delimiter, each value raw between double quotes;
\* the text that follows the block is the transcoded body, unchanged.
C5_MetadataBlock ==
    dpc \in {"meta", "done"} =>
        LET ls == SplitLines(dmeta)
            n == Len(ExpectedBlock(dinfo))
        IN /\ Len(ls) > n
           /\ SubSeq(ls, 1, n) = ExpectedBlock(dinfo)
           /\ JoinLines(SubSeq(ls, n + 1, Len(ls))) = dbody

\* C5 witness: a header was built for a record with a publish time and a
\* title that holds a double quote.
C5_Witness ==
    /\ dpc = "meta"
    /\ dinfo.publish_time # <<>>
    /\ \E k \in 1..Len(dinfo.title) : dinfo.title[k] = Quote
    /\ dbody # <<>>

(***************************************************************************)
(* URLs: urllib.parse as the parser uses it.                               *)
(***************************************************************************)
UpperCase == <<"A", "B", "C", "D", "E", "F", "G", "H", "I", "J", "K", "L", "M", "N", "O", "P", "Q", "R", "S", "T", "U", "V", "W", "X", "Y", "Z">>
LowerCase == <<"a", "b", "c", "d", "e", "f", "g", "h", "i", "j", "k", "l", "m", "n", "o", "p", "q", "r", "s", "t", "u", "v", "w", "x", "y", "z">>
Letters == {UpperCase[k] : k \in 1..26} \cup {LowerCase[k] : k \in 1..26}
Digits == {"0", "1", "2", "3", "4", "5", "6", "7", "8", "9"}

\* str.lower(), one character
LowerChar(c) ==
    IF \E k \in 1..26 : UpperCase[k] = c
    THEN LowerCase[CHOOSE k \in 1..26 : UpperCase[k] = c]
    ELSE c

\* str.lower()
Lower(t) == [k \in 1..Len(t) |-> LowerChar(t[k])]

\* str.endswith
EndsWith(t, p) == Len(t) >= Len(p) /\ SubSeq(t, Len(t) - Len(p) + 1, Len(t)) = p

\* the positions of character c in t
IndexesOf(t, c) == {k \in 1..Len(t) : t[k] = c}

\* urlsplit: the scheme is what precedes the first ':', if that is a letter
\* followed by letters, digits, '+', '-' or '.'
SchemeEnd(u) ==
    LET colons == IndexesOf(u, ":")
    IN IF colons = {} THEN 0
       ELSE LET c == Min(colons)
            IN IF /\ c > 1
                  /\ u[1] \in Letters
                  /\ \A k \in 1..(c - 1) : u[k] \in Letters \cup Digits \cup {"+", "-", "."}
               THEN c ELSE 0

HasScheme(u) == SchemeEnd(u) > 0

\* urlsplit: the network location follows "//" and runs to the next '/', '?' or '#'
AfterScheme(u) == SubSeq(u, SchemeEnd(u) + 1, Len(u))

HasNetloc(u) == StartsWith(AfterScheme(u), <<"/", "/">>)

NetlocEnd(r) ==
    LET stops == {k \in 3..Len(r) : r[k] \in {"/", "?", "#"}}
    IN IF stops = {} THEN Len(r) ELSE Min(stops) - 1

\* scheme://netloc of a URL that has both
Origin(u) == SubSeq(u, 1, SchemeEnd(u)) \o SubSeq(AfterScheme(u), 1, NetlocEnd(AfterScheme(u)))

\* urlparse(u).path, the query and fragment cut off
UrlPath(u) ==
    LET r == IF HasScheme(u) THEN AfterScheme(u) ELSE u
        p == IF StartsWith(r, <<"/", "/">>) THEN SubSeq(r, NetlocEnd(r) + 1, Len(r)) ELSE r
        cuts == {k \in 1..Len(p) : p[k] \in {"?", "#"}}
    IN IF cuts = {} THEN p ELSE SubSeq(p, 1, Min(cuts) - 1)

\* the directory of the base path: up to and with its last '/'
BaseDir(base) ==
    LET p == UrlPath(base)
        slashes == IndexesOf(p, "/")
    IN IF slashes = {} THEN <<"/">> ELSE SubSeq(p, 1, Max(slashes))

\* urljoin(base, url) for a base with scheme and network location and a
\* reference without dot segments
UrlJoin(base, url) ==
    IF url = <<>> THEN base
    ELSE IF HasScheme(url) THEN
        IF SubSeq(url, 1, SchemeEnd(url)) # SubSeq(base, 1, SchemeEnd(base)) \/ HasNetloc(url)
        THEN url
        ELSE Origin(base) \o BaseDir(base) \o AfterScheme(url)
    ELSE IF StartsWith(url, <<"/", "/">>) THEN SubSeq(base, 1, SchemeEnd(base)) \o url
    ELSE IF StartsWith(url, <<"/">>) THEN Origin(base) \o url
    ELSE IF url[1] \in {"?", "#"} THEN Origin(base) \o UrlPath(base) \o url
    ELSE Origin(base) \o BaseDir(base) \o url

\* an absolute, scheme-qualified URL: scheme://host...
IsAbsoluteUrl(u) ==
    /\ HasScheme(u)
    /\ HasNetloc(u)
    /\ NetlocEnd(AfterScheme(u)) > 2

\* os.path.splitext(path)[1]: from the last '.' of the last component, unless
\* that component only starts with dots
SplitExt(p) ==
    LET slashes == IndexesOf(p, "/")
        start == IF slashes = {} THEN 1 ELSE Max(slashes) + 1
        dots == {k \in start..Len(p) : p[k] = "." /\ \E j \in start..(k - 1) : p[j] # "."}
    IN IF dots = {} THEN <<>> ELSE SubSeq(p, Max(dots), Len(p))

(***************************************************************************)
(* WeChatArticleParser._is_valid_image_url and the normalisation of        *)
(* _extract_images                                                         *)
(***************************************************************************)
\* re.search(pattern, url, re.IGNORECASE) for a literal pattern
SearchIgnoreCase(pattern, url) == Contains(Lower(url), pattern)

\* re.search(r'\.gif$', url, re.IGNORECASE): '$' also matches before a final newline
SearchGifAtEnd(url) ==
    \/ EndsWith(Lower(url), <<".", "g", "i", "f">>)
    \/ EndsWith(Lower(url), <<".", "g", "i", "f">> \o <<NL>>)

IsValidImageUrl(url) ==
    /\ url # <<>>
    /\ ~SearchIgnoreCase(<<"d", "a", "t", "a", ":", "i", "m", "a", "g", "e">>, url)
    /\ ~SearchGifAtEnd(url)
    /\ ~SearchIgnoreCase(<<"a", "v", "a", "t", "a", "r">>, url)
    /\ ~SearchIgnoreCase(<<"q", "r", "c", "o", "d", "e">>, url)
    /\ ~SearchIgnoreCase(<<"1", "x", "1", ".", "p", "n", "g">>, url)

\* lines 164-169: the conversion to an absolute link
ToAbsolute(img_src, base_url) ==
    IF StartsWith(img_src, <<"/", "/">>) THEN <<"h", "t", "t", "p", "s", ":">> \o img_src
    ELSE IF StartsWith(img_src, <<"/">>) THEN UrlJoin(base_url, img_src)
    ELSE IF ~StartsWith(img_src, <<"h", "t", "t", "p">>) THEN UrlJoin(base_url, img_src)
    ELSE img_src

(***************************************************************************)
(* The parsed page (the BeautifulSoup tree).  A page is a body that holds  *)
(* at most one content container with its child elements, and elements     *)
(* that follow the container; without a container the child elements are   *)
(* the body's own.  A node is a tag and its attributes, name -> value.     *)
(***************************************************************************)
\* tag.get(name): the value, empty when the attribute is absent
Get(node, name) == IF name \in DOMAIN node.attrs THEN node.attrs[name] ELSE <<>>

\* the attribute names of the model, in the order they are written in a tag
AttrOrder == <<"class", "id", "style", "data-src", "src", "alt">>

AttrNameChars(name) ==
    CASE name = "class" -> <<"c", "l", "a", "s", "s">>
      [] name = "id" -> <<"i", "d">>
      [] name = "style" -> <<"s", "t", "y", "l", "e">>
      [] name = "data-src" -> <<"d", "a", "t", "a", "-", "s", "r", "c">>
      [] name = "src" -> <<"s", "r", "c">>
      [] name = "alt" -> <<"a", "l", "t">>

\* the entity substitution of an attribute value in str(tag)
RECURSIVE EscapeAttr(_)
EscapeAttr(v) ==
    IF \A k \in 1..Len(v) : v[k] \notin {"&", "<", ">"} THEN v
    ELSE (CASE v[1] = "&" -> <<"&", "a", "m", "p", ";">>
            [] v[1] = "<" -> <<"&", "l", "t", ";">>
            [] v[1] = ">" -> <<"&", "g", "t", ";">>
            [] OTHER -> <<v[1]>>) \o EscapeAttr(Tail(v))

\*  name="value" for every attribute the node carries
RECURSIVE SerializeAttrs(_, _)
SerializeAttrs(node, k) ==
    IF k > Len(AttrOrder) THEN <<>>
    ELSE (IF AttrOrder[k] \in DOMAIN node.attrs
          THEN <<SP>> \o AttrNameChars(AttrOrder[k]) \o <<"=", Quote>>
               \o EscapeAttr(node.attrs[AttrOrder[k]]) \o <<Quote>>
          ELSE <<>>) \o SerializeAttrs(node, k + 1)

VoidTags == {<<"i", "m", "g">>}

\* str(tag) of a childless element
SerializeNode(node) ==
    IF node.tag \in VoidTags
    THEN <<"<">> \o node.tag \o SerializeAttrs(node, 1) \o <<"/", ">">>
    ELSE <<"<">> \o node.tag \o SerializeAttrs(node, 1) \o <<">">>
         \o <<"<", "/">> \o node.tag \o <<">">>

RECURSIVE SerializeAll(_)
SerializeAll(nodes) ==
    IF nodes = <<>> THEN <<>> ELSE SerializeNode(nodes[1]) \o SerializeAll(Tail(nodes))

\* str(tag) of an element with children
SerializeTree(root, children) ==
    <<"<">> \o root.tag \o SerializeAttrs(root, 1) \o <<">">>
    \o SerializeAll(children)
    \o <<"<", "/">> \o root.tag \o <<">">>

BodyNode == [tag |-> <<"b", "o", "d", "y">>, attrs |-> <<>>]

\* str.split(' ') without the empty pieces: the words of a class attribute
RECURSIVE WordsFrom(_, _, _)
WordsFrom(t, i, cur) ==
    IF i > Len(t) THEN (IF cur = <<>> THEN {} ELSE {cur})
    ELSE IF t[i] \in Whitespace
         THEN (IF cur = <<>> THEN {} ELSE {cur}) \cup WordsFrom(t, i + 1, <<>>)
         ELSE WordsFrom(t, i + 1, Append(cur, t[i]))

ClassWords(node) == WordsFrom(Get(node, "class"), 1, <<>>)

(***************************************************************************)
(* WeChatArticleParser._clean_content_element                              *)
(***************************************************************************)
\* keep_attrs ('href' and 'title' are kept too; no node of the model has them)
KeepAttrs == {"src", "href", "alt", "title", "data-src"}

RemovedTags == {<<"s", "c", "r", "i", "p", "t">>, <<"s", "t", "y", "l", "e">>, <<"n", "o", "s", "c", "r", "i", "p", "t">>}

\* ad_selectors: [class*="ad"], [id*="ad"], [class*="recommend"],
\* [class*="related"], .qr_code_pc, .reward_area
MatchesAdSelector(node) ==
    \/ Contains(Get(node, "class"), <<"a", "d">>)
    \/ Contains(Get(node, "id"), <<"a", "d">>)
    \/ Contains(Get(node, "class"), <<"r", "e", "c", "o", "m", "m", "e", "n", "d">>)
    \/ Contains(Get(node, "class"), <<"r", "e", "l", "a", "t", "e", "d">>)
    \/ <<"q", "r", "_", "c", "o", "d", "e", "_", "p", "c">> \in ClassWords(node)
    \/ <<"r", "e", "w", "a", "r", "d", "_", "a", "r", "e", "a">> \in ClassWords(node)

\* del tag[attr] for every attribute outside keep_attrs
StripAttrs(node) ==
    [node EXCEPT !.attrs = [a \in (DOMAIN node.attrs) \cap KeepAttrs |-> node.attrs[a]]]

IsKeptTag(node) == node.tag \notin RemovedTags
IsNotAd(node) == ~MatchesAdSelector(node)

\* what the pass leaves of the descendants of the cleaned element; the
\* element itself is not among element.find_all() and is left as it is
CleanDescendants(children) ==
    LET kept == SelectSeq(SelectSeq(children, IsKeptTag), IsNotAd)
    IN [k \in 1..Len(kept) |-> StripAttrs(kept[k])]

(***************************************************************************)
(* WeChatArticleParser._extract_content                                    *)
(***************************************************************************)
\* content_selectors: '#js_content', '.rich_media_content',
\* '#js_article_container', '.article_content'
MatchesContentSelector(node, k) ==
    CASE k = 1 -> Get(node, "id") = <<"j", "s", "_", "c", "o", "n", "t", "e", "n", "t">>
      [] k = 2 -> <<"r", "i", "c", "h", "_", "m", "e", "d", "i", "a", "_", "c", "o", "n", "t", "e", "n", "t">> \in ClassWords(node)
      [] k = 3 -> Get(node, "id") = <<"j", "s", "_", "a", "r", "t", "i", "c", "l", "e", "_", "c", "o", "n", "t", "a", "i", "n", "e", "r">>
      [] k = 4 -> <<"a", "r", "t", "i", "c", "l", "e", "_", "c", "o", "n", "t", "e", "n", "t">> \in ClassWords(node)

\* the element the cascade selects: the container, else the body, else
\* nothing.  In the pages of the model no other element carries an id or a
\* class of the selector list.
ContentRoot(tree) ==
    IF tree.container # <<>> /\ \E k \in 1..4 : MatchesContentSelector(tree.container[1], k)
    THEN "container"
    ELSE IF tree.body THEN "body"
    ELSE "none"

\* what the field selectors find once every element of the body has lost
\* its class and id (lines 198-208): the id, class and attribute selectors
\* match nothing, and only the <title> tag, which is in the head, is left
StrippedFound(found) ==
    [title |-> [k \in 1..Len(found.title) |->
                    IF k = Len(found.title) THEN found.title[k] ELSE <<>>],
     author |-> [k \in 1..Len(found.author) |-> <<>>],
     time |-> [k \in 1..Len(found.time) |-> <<>>]]

\* the tree after _clean_content_element(content_element), done in place;
\* the elements the field selectors match are outside the content container
SanitizedSoup(tree) ==
    CASE ContentRoot(tree) = "container" ->
            [tree EXCEPT !.elems = CleanDescendants(tree.elems)]
      [] ContentRoot(tree) = "body" ->
            [tree EXCEPT !.container = CleanDescendants(tree.container),
                         !.elems = CleanDescendants(tree.elems),
                         !.outer = CleanDescendants(tree.outer),
                         !.found = StrippedFound(tree.found)]
      [] OTHER -> tree

\* mutant: the fields are read after _extract_content has sanitized the tree
FieldSourceSanitized(tree) == SanitizedSoup(tree)

\* the tree the field extractors are given: the dict literal of
\* parse_article evaluates title, author and publish_time before content_html
FieldSource(tree) == tree

\* str(content_element), or '' when there is neither container nor body
ContentHtml(tree) ==
    CASE ContentRoot(tree) = "container" -> SerializeTree(tree.container[1], tree.elems)
      [] ContentRoot(tree) = "body" ->
            SerializeTree(BodyNode, tree.container \o tree.elems \o tree.outer)
      [] OTHER -> <<>>

\* the elements of the returned content markup below its root
ContentElements(tree) ==
    CASE ContentRoot(tree) = "container" -> tree.elems
      [] ContentRoot(tree) = "body" -> tree.container \o tree.elems \o tree.outer
      [] OTHER -> <<>>

(***************************************************************************)
(* WeChatArticleParser._extract_images                                     *)
(***************************************************************************)
IsImg(node) == node.tag = <<"i", "m", "g">>

\* tree.find_all('img'): every image of the whole tree, in document order
AllImgTags(tree) == SelectSeq(tree.container \o tree.elems \o tree.outer, IsImg)

\* img.get('data-src') or img.get('src')
ImgSrc(img) == IF Get(img, "data-src") # <<>> THEN Get(img, "data-src") ELSE Get(img, "src")

\* the images list before the deduplication
RECURSIVE CollectImages(_, _)
CollectImages(imgs, base_url) ==
    IF imgs = <<>> THEN <<>>
    ELSE LET img_src == ImgSrc(imgs[1])
             abs == ToAbsolute(img_src, base_url)
         IN (IF img_src # <<>> /\ IsValidImageUrl(abs) THEN <<abs>> ELSE <<>>)
            \o CollectImages(Tail(imgs), base_url)

Range(s) == {s[k] : k \in 1..Len(s)}

\* list(set(images)): the distinct URLs in any order
SetOrders(S) == {s \in [1..Cardinality(S) -> S] : Range(s) = S}

\* mutant: the list is returned as collected, duplicates and all
ExtractImagesNoDedup(tree, base_url) == {CollectImages(AllImgTags(tree), base_url)}

ExtractImages(tree, base_url) == SetOrders(Range(CollectImages(AllImgTags(tree), base_url)))

(***************************************************************************)
(* The field extractors: _extract_title, _extract_author and               *)
(* _extract_publish_time.  For each field the page gives, selector by      *)
(* selector in the order of the cascade, the text of the first element the *)
(* selector matches: <<>> when none matches, <<text>> otherwise.           *)
(***************************************************************************)
\* the placeholder title: the platform's own name (six Chinese characters)
PlatformName == <<"wei", "xin", "gong", "zhong", "ping", "tai">>

RECURSIVE ExtractTitle(_)
ExtractTitle(found) ==
    IF found = <<>> THEN UnknownTitle
    ELSE IF found[1] # <<>> /\ Strip(found[1][1]) # <<>> /\ Strip(found[1][1]) # PlatformName
         THEN CleanText(Strip(found[1][1]))
         ELSE ExtractTitle(Tail(found))

\* mutant: the text of the first element matched is returned, usable or not
ExtractAuthorUnchecked(found) ==
    LET hits == {k \in 1..Len(found) : found[k] # <<>>}
    IN IF hits = {} THEN UnknownAuthor ELSE CleanText(Strip(found[Min(hits)][1]))

RECURSIVE ExtractAuthor(_)
ExtractAuthor(found) ==
    IF found = <<>> THEN UnknownAuthor
    ELSE IF found[1] # <<>> /\ Strip(found[1][1]) # <<>>
         THEN CleanText(Strip(found[1][1]))
         ELSE ExtractAuthor(Tail(found))

\* the characters of the localized date: year, month and day
Nian == "nian"
Yue == "yue"
Ri == "ri"

AllDigits(t, i, j) == j <= Len(t) /\ \A k \in i..j : t[k] \in Digits

\* \d{4}-\d{2}-\d{2} at position i: where it ends, 0 when it does not match
IsoMatchEnd(t, i) ==
    IF /\ i + 9 <= Len(t)
       /\ AllDigits(t, i, i + 3) /\ t[i + 4] = "-"
       /\ AllDigits(t, i + 5, i + 6) /\ t[i + 7] = "-"
       /\ AllDigits(t, i + 8, i + 9)
    THEN i + 9 ELSE 0

\* \d{1,2} followed by the character c, from position i: the position of c
DigitsThen(t, i, c) ==
    IF AllDigits(t, i, i + 1) /\ i + 2 <= Len(t) /\ t[i + 2] = c THEN i + 2
    ELSE IF AllDigits(t, i, i) /\ i + 1 <= Len(t) /\ t[i + 1] = c THEN i + 1
    ELSE 0

\* \d{4}<year>\d{1,2}<month>\d{1,2}<day> at position i
LocalMatchEnd(t, i) ==
    IF AllDigits(t, i, i + 3) /\ i + 4 <= Len(t) /\ t[i + 4] = Nian
    THEN LET m == DigitsThen(t, i + 5, Yue)
         IN IF m = 0 THEN 0 ELSE DigitsThen(t, m + 1, Ri)
    ELSE 0

DateMatchEnd(t, i) == IF IsoMatchEnd(t, i) > 0 THEN IsoMatchEnd(t, i) ELSE LocalMatchEnd(t, i)

\* re.search(time_pattern, time_text): the leftmost match, <<>> for None
DateSearch(t) ==
    LET starts == {i \in 1..Len(t) : DateMatchEnd(t, i) > 0}
    IN IF starts = {} THEN <<>> ELSE SubSeq(t, Min(starts), DateMatchEnd(t, Min(starts)))

RECURSIVE ExtractPublishTime(_)
ExtractPublishTime(found) ==
    IF found = <<>> THEN <<>>
    ELSE IF found[1] # <<>> /\ DateSearch(Strip(found[1][1])) # <<>>
         THEN DateSearch(Strip(found[1][1]))
         ELSE ExtractPublishTime(Tail(found))

(***************************************************************************)
(* MarkdownConverter._download_image                                       *)
(***************************************************************************)
\* MAX_IMAGE_SIZE = 10 * 1024 * 1024
MAX_IMAGE_SIZE == 10485760

DigitValue(c) == CHOOSE d \in 0..9 : <<"0", "1", "2", "3", "4", "5", "6", "7", "8", "9">>[d + 1] = c

\* int(content_length) of a string of digits
RECURSIVE ParseInt(_)
ParseInt(t) ==
    IF Len(t) = 1 THEN DigitValue(t[1])
    ELSE 10 * ParseInt(SubSeq(t, 1, Len(t) - 1)) + DigitValue(t[Len(t)])

\* int() raises ValueError on anything but digits
IsInteger(t) == t # <<>> /\ \A k \in 1..Len(t) : t[k] \in Digits

DigitChar(d) == <<"0", "1", "2", "3", "4", "5", "6", "7", "8", "9">>[d + 1]

\* mutant: every image gets the index 0
PadZero(index) == <<"0", "0", "0">>

\* f"{index:03d}"
RECURSIVE Decimal(_)
Decimal(n) == IF n < 10 THEN <<DigitChar(n)>> ELSE Decimal(n \div 10) \o <<DigitChar(n % 10)>>

Pad3(index) ==
    LET d == Decimal(index)
    IN IF Len(d) >= 3 THEN d ELSE [k \in 1..(3 - Len(d)) |-> "0"] \o d

\* the extension: from the path of the URL, else from the Content-Type
ExtFromContentType(content_type) ==
    IF Contains(content_type, <<"j", "p", "e", "g">>) \/ Contains(content_type, <<"j", "p", "g">>) THEN <<".", "j", "p", "g">>
    ELSE IF Contains(content_type, <<"p", "n", "g">>) THEN <<".", "p", "n", "g">>
    ELSE IF Contains(content_type, <<"g", "i", "f">>) THEN <<".", "g", "i", "f">>
    ELSE IF Contains(content_type, <<"w", "e", "b", "p">>) THEN <<".", "w", "e", "b", "p">>
    ELSE <<".", "j", "p", "g">>

ImageExt(img_url, content_type) ==
    LET ext == Lower(SplitExt(UrlPath(img_url)))
    IN IF ext # <<>> THEN ext ELSE ExtFromContentType(content_type)

\* f"image_{index:03d}{ext}"
ImageFilename(img_url, content_type, index) ==
    <<"i", "m", "a", "g", "e", "_">> \o Pad3(index) \o ImageExt(img_url, content_type)

\* mutant: a length equal to the ceiling is skipped as well
ReachesCeiling(content_length) == ParseInt(content_length) >= MAX_IMAGE_SIZE

\* int(content_length) > MAX_IMAGE_SIZE
ExceedsCeiling(content_length) == ParseInt(content_length) > MAX_IMAGE_SIZE

\* What one call does.  A response says whether the request got through,
\* its status, its Content-Length (<<>> when absent) and Content-Type, whether
\* the body streams to its end and whether its bytes are a decodable image.
\* The result is the returned filename (<<>> for None), what the call
\* leaves at the file path: "none" (nothing written), "image" (the verified
\* file), "partial" (written in part, then the stream broke) or "deleted"
\* (written, failed the verification and removed), and the number of bytes
\* it wrote there (a part of the body when the stream broke).  Every
\* exception is caught by the except clause of the method, which returns None.
DownloadImage(img_url, resp, index) ==
    LET filename == ImageFilename(img_url, resp.content_type, index)
        None(left) ==
            [filename |-> <<>>, path |-> filename, left |-> left,
             size |-> CASE left = "partial" -> resp.size \div 2
                        [] left = "deleted" -> resp.size
                        [] OTHER -> 0]
    IN IF resp.net # "ok" \/ ~IsAbsoluteUrl(img_url) THEN None("none")
       ELSE IF resp.status >= 400 THEN None("none")
       ELSE IF resp.content_length # <<>> /\ ~IsInteger(resp.content_length) THEN None("none")
       ELSE IF resp.content_length # <<>> /\ ExceedsCeiling(resp.content_length)
            THEN None("none")
       ELSE IF resp.stream # "complete" THEN None("partial")
       ELSE IF resp.bytes # "image" THEN None("deleted")
       ELSE [filename |-> filename, path |-> filename, left |-> "image", size |-> resp.size]

(***************************************************************************)
(* MarkdownConverter._download_and_update_images                           *)
(***************************************************************************)
\* the four patterns, applied in sequence, each replaced by src="relative_path"
RewriteImage(html, img_url, relative_path) ==
    LET to == <<"s", "r", "c", "=", "\"">> \o relative_path \o <<Quote>>
        p1 == <<"s", "r", "c", "=", "\"">> \o img_url \o <<Quote>>
        p2 == <<"s", "r", "c", "=", "'">> \o img_url \o <<"'">>
        p3 == <<"d", "a", "t", "a", "-", "s", "r", "c", "=", "\"">> \o img_url \o <<Quote>>
        p4 == <<"d", "a", "t", "a", "-", "s", "r", "c", "=", "'">> \o img_url \o <<"'">>
    IN ReSub(p4, to, ReSub(p3, to, ReSub(p2, to, ReSub(p1, to, html))))

\* f"{relative_images_dir}/{local_filename}" with images_dir="images"
RelativePath(local_filename) == <<"i", "m", "a", "g", "e", "s", "/">> \o local_filename

\* mutant: an image that could not be downloaded ends the loop
AbortOnFailure(local_filename) == IF local_filename = <<>> THEN "abort" ELSE "next"

\* how the loop goes on after an image: with the next one, whether the image
\* was saved or not (the for loop, and the continue of its except clause)
AfterImage(local_filename) == "next"

(***************************************************************************)
(* One conversion, as collection_worker runs it: parse_article (fetch,     *)
(* field extraction, content extraction with its sanitizing, image         *)
(* extraction), convert_to_markdown (the download loop, the transcoding,   *)
(* the header and the cleanup) and save_article.                           *)
(***************************************************************************)
\* the image references of the modelled pages
AbsUrl == <<"h", "t", "t", "p", "s", ":", "/", "/", "h", "/", "i", ".", "j", "p", "g">>
ProtoRelUrl == <<"/", "/", "h", "/", "i", ".", "j", "p", "g">>
RootRelUrl == <<"/", "i", ".", "j", "p", "g">>
RelUrl == <<"i", ".", "j", "p", "g">>
HttpRelUrl == <<"h", "t", "t", "p", "d", "/", "i", ".", "j", "p", "g">>
AmpUrl == <<"h", "t", "t", "p", "s", ":", "/", "/", "h", "/", "k", "?", "a", "&", "b">>
AdUrl == <<"h", "t", "t", "p", "s", ":", "/", "/", "h", "/", "a", ".", "j", "p", "g">>
OuterUrl == <<"h", "t", "t", "p", "s", ":", "/", "/", "h", "/", "o", ".", "j", "p", "g">>

Node(tag, attrs) == [tag |-> tag, attrs |-> attrs]

ImgAbs == Node(<<"i", "m", "g">>, [a \in {"src"} |-> AbsUrl])
ImgProto ==
    Node(<<"i", "m", "g">>, [a \in {"class", "style", "src"} |->
                      CASE a = "class" -> <<"r", "i", "c", "h", "_", "p", "a", "g", "e", "s">>
                        [] a = "style" -> <<"y">>
                        [] a = "src" -> ProtoRelUrl])
ImgRoot == Node(<<"i", "m", "g">>, [a \in {"src"} |-> RootRelUrl])
ImgRel == Node(<<"i", "m", "g">>, [a \in {"src", "alt"} |-> IF a = "src" THEN RelUrl ELSE <<"x">>])
ImgHttpRel == Node(<<"i", "m", "g">>, [a \in {"src"} |-> HttpRelUrl])
ImgLazy ==
    Node(<<"i", "m", "g">>, [a \in {"class", "data-src"} |->
                      IF a = "class" THEN <<"r", "i", "c", "h", "_", "p", "a", "g", "e", "s">> ELSE AbsUrl])
ImgAmp == Node(<<"i", "m", "g">>, [a \in {"src"} |-> AmpUrl])
ImgAd ==
    Node(<<"i", "m", "g">>, [a \in {"class", "src"} |-> IF a = "class" THEN <<"a", "d", "_", "b", "o", "x">> ELSE AdUrl])
Script == Node(<<"s", "c", "r", "i", "p", "t">>, <<>>)

ElemSet == {ImgAbs, ImgProto, ImgRoot, ImgRel, ImgHttpRel, ImgLazy, ImgAmp, ImgAd, Script}

\* an image next to the content container, outside of it
OuterImg ==
    Node(<<"i", "m", "g">>, [a \in {"class", "src"} |-> IF a = "class" THEN <<"l", "o", "g", "o">> ELSE OuterUrl])

\* <div class="rich_media_content" id="js_content" style="x">
ContainerDiv ==
    Node(<<"d", "i", "v">>, [a \in {"class", "id", "style"} |->
                      CASE a = "class" -> <<"r", "i", "c", "h", "_", "m", "e", "d", "i", "a", "_", "c", "o", "n", "t", "e", "n", "t">>
                        [] a = "id" -> <<"j", "s", "_", "c", "o", "n", "t", "e", "n", "t">>
                        [] a = "style" -> <<"x">>])

\* what the selectors of the three field cascades find: nothing at all; on
\* an article page, a title (under '.rich_media_title' and 'h1.rich_media_title',
\* the <title> tag holding the platform's name), an author under '#js_name'
\* and a date inside '.rich_media_meta_text'; on a page without a body, at
\* most the <title> tag of its head
FoundNothing ==
    [title |-> <<<<>>, <<>>, <<>>, <<>>, <<>>>>,
     author |-> <<<<>>, <<>>, <<>>, <<>>>>,
     time |-> <<<<>>, <<>>, <<>>, <<>>>>]

FoundArticle ==
    [title |-> <<<<>>, <<<<SP, "T", NL, "T", SP>>>>, <<<<SP, "T", NL, "T", SP>>>>, <<>>,
                 <<PlatformName>>>>,
     author |-> <<<<<<SP, "A", SP>>>>, <<<<"A", SP>> \o IsoDate>>, <<>>, <<>>>>,
     time |-> <<<<>>, <<<<"A", SP>> \o IsoDate>>, <<>>, <<>>>>]

FoundTitleTag ==
    [title |-> <<<<>>, <<>>, <<>>, <<>>, <<<<"T">>>>>>,
     author |-> <<<<>>, <<>>, <<>>, <<>>>>,
     time |-> <<<<>>, <<>>, <<>>, <<>>>>]

\* a page where selectors match and none gives usable text: an empty and a
\* blank title element and the platform's name in the <title> tag, blank
\* author elements, and elements without a date
FoundUnusable ==
    [title |-> <<<<<<>>>>, <<<<SP, NL>>>>, <<>>, <<>>, <<<<SP>> \o PlatformName \o <<NL>>>>>>,
     author |-> <<<<<<SP>>>>, <<<<>>>>, <<>>, <<<<NL, SP>>>>>>,
     time |-> <<<<>>, <<<<>>>>, <<<<"A", SP, "2", "0", "2", "4", "-", "1">>>>, <<>>>>]

ElemSeqs == SeqsUpTo(ElemSet, MaxElems)

Soups ==
    [body : {TRUE}, container : {<<ContainerDiv>>}, elems : ElemSeqs,
     outer : {<<>>, <<OuterImg>>}, found : {FoundNothing, FoundArticle}]
    \cup [body : {TRUE}, container : {<<>>}, elems : ElemSeqs, outer : {<<>>},
          found : {FoundNothing, FoundArticle, FoundUnusable}]
    \cup [body : {FALSE}, container : {<<>>}, elems : {<<>>}, outer : {<<>>},
          found : {FoundNothing, FoundTitleTag}]

EmptySoup ==
    [body |-> FALSE, container |-> <<>>, elems |-> <<>>, outer |-> <<>>,
     found |-> [title |-> <<>>, author |-> <<>>, time |-> <<>>]]

Pages ==
    [fetch : {"ok"}, url : {SourceUrl}, soup : Soups]
    \cup [fetch : {"network_error", "http_error"}, url : {SourceUrl}, soup : {EmptySoup}]

EmptyInfo ==
    [url |-> <<>>, title |-> <<>>, author |-> <<>>, publish_time |-> <<>>,
     content_html |-> <<>>, images |-> <<>>]

\* the responses an image fetch can get; size is the number of bytes of the
\* body, whatever the Content-Length header says
Response(net, status, content_length, content_type, stream, bytes, size) ==
    [net |-> net, status |-> status, content_length |-> content_length,
     content_type |-> content_type, stream |-> stream, bytes |-> bytes, size |-> size]

Jpeg == <<"i", "m", "a", "g", "e", "/", "j", "p", "e", "g">>
RespOk == Response("ok", 200, <<>>, Jpeg, "complete", "image", 2000)
RespOkLength == Response("ok", 200, <<"2", "0", "0", "0">>, Jpeg, "complete", "image", 2000)
RespNetworkError == Response("error", 0, <<>>, <<>>, "broken", "none", 0)
RespNotFound == Response("ok", 404, <<>>, <<"t", "e", "x", "t", "/", "h", "t", "m", "l">>, "complete", "corrupt", 2000)
RespOversize == Response("ok", 200, <<"1", "0", "4", "8", "5", "7", "6", "1">>, Jpeg, "complete", "image", MAX_IMAGE_SIZE + 1)
RespAtCeiling == Response("ok", 200, <<"1", "0", "4", "8", "5", "7", "6", "0">>, Jpeg, "complete", "image", MAX_IMAGE_SIZE)
RespMalformedLength == Response("ok", 200, <<"1", "e", "3">>, Jpeg, "complete", "image", 2000)
RespCorrupt == Response("ok", 200, <<"2", "0", "0", "0">>, Jpeg, "complete", "corrupt", 2000)
RespBroken == Response("ok", 200, <<"2", "0", "0", "0">>, Jpeg, "broken", "image", 2000)
RespPng == Response("ok", 200, <<>>, <<"i", "m", "a", "g", "e", "/", "p", "n", "g">>, "complete", "image", 2000)

\* a body over the ceiling behind a response that reports no Content-Length
RespUnreportedOversize == Response("ok", 200, <<>>, Jpeg, "complete", "image", MAX_IMAGE_SIZE + 1)

Responses ==
    {RespOk, RespOkLength, RespNetworkError, RespNotFound, RespOversize, RespAtCeiling,
     RespMalformedLength, RespCorrupt, RespBroken, RespPng, RespUnreportedOversize}

\* what h2t.handle can return: the html2text library is not part of the
\* repository, its output is a text that ends its last paragraph, or nothing
TranscodedBodies == {<<"a", NL, NL>>, <<NL, NL>>}

PipeIdle ==
    /\ pc = "idle" /\ page = <<>> /\ soup = <<>> /\ article_info = <<>>
    /\ images_dir = FALSE /\ files = <<>> /\ updated_html = <<>> /\ idx = 0
    /\ results = <<>> /\ doc = <<>> /\ saved = FALSE /\ result = "none"

PipeInit ==
    /\ pc = "start"
    /\ page \in Pages
    /\ soup = EmptySoup
    /\ article_info = EmptyInfo
    /\ images_dir = FALSE
    /\ files = <<>>
    /\ updated_html = <<>>
    /\ idx = 0
    /\ results = <<>>
    /\ doc = <<>>
    /\ saved = FALSE
    /\ result = "none"

\* parse_article, lines 40-45: the fetch; a failed fetch raises, and the
\* worker's except clause reports the error
Fetch ==
    /\ pc = "start"
    /\ IF page.fetch = "ok"
       THEN /\ soup' = page.soup
            /\ pc' = "fetched"
            /\ UNCHANGED result
       ELSE /\ pc' = "finished"
            /\ result' = "error"
            /\ UNCHANGED soup
    /\ UNCHANGED <<page, article_info, images_dir, files, updated_html, idx, results,
                   doc, saved>>
    /\ UNCHANGED <<cleanVars, docVars, imgVars, nameVars, saveVars, resVars, guiVars, listVars, runVars>>

\* parse_article, lines 49-52: url, title, author and publish_time
ExtractFields ==
    /\ pc = "fetched"
    /\ article_info' = [article_info EXCEPT
                            !.url = page.url,
                            !.title = ExtractTitle(FieldSource(soup).found.title),
                            !.author = ExtractAuthor(FieldSource(soup).found.author),
                            !.publish_time = ExtractPublishTime(FieldSource(soup).found.time)]
    /\ pc' = "fields"
    /\ UNCHANGED <<page, soup, images_dir, files, updated_html, idx, results, doc, saved,
                   result>>
    /\ UNCHANGED <<cleanVars, docVars, imgVars, nameVars, saveVars, resVars, guiVars, listVars, runVars>>

\* parse_article, line 53: _extract_content, which sanitizes the tree in place
ExtractContent ==
    /\ pc = "fields"
    /\ soup' = SanitizedSoup(soup)
    /\ article_info' = [article_info EXCEPT !.content_html = ContentHtml(SanitizedSoup(soup))]
    /\ pc' = "content"
    /\ UNCHANGED <<page, images_dir, files, updated_html, idx, results, doc, saved, result>>
    /\ UNCHANGED <<cleanVars, docVars, imgVars, nameVars, saveVars, resVars, guiVars, listVars, runVars>>

\* parse_article, lines 58-60: _extract_images, and the record is returned
ExtractImagesStep ==
    /\ pc = "content"
    /\ \E images \in ExtractImages(soup, page.url) :
          article_info' = [article_info EXCEPT !.images = images]
    /\ pc' = "parsed"
    /\ UNCHANGED <<page, soup, images_dir, files, updated_html, idx, results, doc, saved,
                   result>>
    /\ UNCHANGED <<cleanVars, docVars, imgVars, nameVars, saveVars, resVars, guiVars, listVars, runVars>>

\* convert_to_markdown, lines 59-60 and 97: the images directory is made
\* and the loop starts on the content markup
BeginConvert ==
    /\ pc = "parsed"
    /\ images_dir' = TRUE
    /\ updated_html' = article_info.content_html
    /\ idx' = 0
    /\ pc' = "download"
    /\ UNCHANGED <<page, soup, article_info, files, results, doc, saved, result>>
    /\ UNCHANGED <<cleanVars, docVars, imgVars, nameVars, saveVars, resVars, guiVars, listVars, runVars>>

\* the files of the images directory after a call of _download_image
FilesAfter(fs, out) ==
    CASE out.left \in {"image", "partial"} ->
            [n \in (DOMAIN fs) \cup {out.path} |->
                IF n = out.path THEN [holds |-> out.left, size |-> out.size] ELSE fs[n]]
      [] out.left = "deleted" -> [n \in (DOMAIN fs) \ {out.path} |-> fs[n]]
      [] OTHER -> fs

\* _download_and_update_images, lines 99-126: one turn of the loop
DownloadStep ==
    /\ pc = "download"
    /\ idx < Len(article_info.images)
    /\ \E resp \in Responses :
          LET img_url == article_info.images[idx + 1]
              out == DownloadImage(img_url, resp, idx)
          IN /\ files' = FilesAfter(files, out)
             /\ updated_html' =
                   IF out.filename # <<>>
                   THEN RewriteImage(updated_html, img_url, RelativePath(out.filename))
                   ELSE updated_html
             /\ results' = Append(results, out.filename)
             /\ idx' = idx + 1
             /\ IF AfterImage(out.filename) = "next"
                THEN pc' = "download" /\ UNCHANGED result
                ELSE pc' = "finished" /\ result' = "error"
    /\ UNCHANGED <<page, soup, article_info, images_dir, doc, saved>>
    /\ UNCHANGED <<cleanVars, docVars, imgVars, nameVars, saveVars, resVars, guiVars, listVars, runVars>>

\* convert_to_markdown, lines 70-79: h2t.handle, the header and the cleanup
Transcode ==
    /\ pc = "download"
    /\ idx = Len(article_info.images)
    /\ \E markdown_content \in TranscodedBodies :
          doc' = CleanMarkdown(AddMetadataHeader(article_info, markdown_content))
    /\ pc' = "converted"
    /\ UNCHANGED <<page, soup, article_info, images_dir, files, updated_html, idx, results,
                   saved, result>>
    /\ UNCHANGED <<cleanVars, docVars, imgVars, nameVars, saveVars, resVars, guiVars, listVars, runVars>>

\* collection_worker, lines 285-287: save_article writes the document, or
\* raises when the file cannot be written, and the worker's except clause
\* reports the error
SaveArticle ==
    /\ pc = "converted"
    /\ \E written \in BOOLEAN :
          IF written
          THEN /\ saved' = TRUE
               /\ pc' = "saved"
               /\ UNCHANGED result
          ELSE /\ pc' = "finished"
               /\ result' = "error"
               /\ UNCHANGED saved
    /\ UNCHANGED <<page, soup, article_info, images_dir, files, updated_html, idx, results,
                   doc>>
    /\ UNCHANGED <<cleanVars, docVars, imgVars, nameVars, saveVars, resVars, guiVars, listVars, runVars>>

\* collection_worker, lines 289-296: the success is reported
Finish ==
    /\ pc = "saved"
    /\ result' = "success"
    /\ pc' = "finished"
    /\ UNCHANGED <<page, soup, article_info, images_dir, files, updated_html, idx, results,
                   doc, saved>>
    /\ UNCHANGED <<cleanVars, docVars, imgVars, nameVars, saveVars, resVars, guiVars, listVars, runVars>>

(***************************************************************************)
(* Properties of one conversion.                                           *)
(***************************************************************************)
\* parse_article has returned its record
Parsed == pc \in {"parsed", "download", "converted", "saved"} \/ (pc = "finished" /\ page.fetch = "ok")

\* the download loop has run to its end
Downloaded ==
    \/ pc = "download" /\ idx = Len(article_info.images)
    \/ pc \in {"converted", "saved"}
    \/ pc = "finished" /\ result = "success"

\* the attribute an image reference is read from: data-src before src
SourceAttr(img) == IF Get(img, "data-src") # <<>> THEN "data-src" ELSE "src"

\* name="value", as the attribute stands in the serialized markup
AttrText(name, value) ==
    AttrNameChars(name) \o <<"=", Quote>> \o EscapeAttr(value) \o <<Quote>>

\* the images of the returned content markup that carry a reference
ContentImages == {e \in Range(ContentElements(soup)) : IsImg(e) /\ ImgSrc(e) # <<>>}

\* C1 (as claimed): after the download loop, for every image that was saved,
\* every attribute of the content markup its URL was resolved from, whatever
\* the form of the reference, is gone from the markup, which has a source
\* attribute holding images/<local filename> in its place.
C1_EveryReferenceRewritten ==
    Downloaded =>
        \A i \in 1..Len(results) :
            results[i] # <<>> =>
                \A e \in ContentImages :
                    ToAbsolute(ImgSrc(e), page.url) = article_info.images[i] =>
                        /\ ~Contains(updated_html, AttrText(SourceAttr(e), ImgSrc(e)))
                        /\ Contains(updated_html, AttrText("src", RelativePath(results[i])))

\* C6 (as claimed): every entry of the image list is an absolute,
\* scheme-qualified URL.
C6_ImagesAbsolute ==
    Parsed => \A i \in 1..Len(article_info.images) : IsAbsoluteUrl(article_info.images[i])

\* C7 (as claimed): every URL of the image list was resolved from an image
\* element of the returned content markup.
C7_ImagesFromContent ==
    Parsed =>
        \A i \in 1..Len(article_info.images) :
            \E e \in ContentImages : ToAbsolute(ImgSrc(e), page.url) = article_info.images[i]

\* the root of the returned content markup
ContentRootNode == IF ContentRoot(soup) = "container" THEN soup.container[1] ELSE BodyNode

\* C8 (as claimed): after the sanitizing every element of the returned
\* content markup, the selected container itself included, carries only
\* attributes of the whitelist.
C8_OnlyWhitelistedAttrs ==
    (pc \in {"content", "parsed", "download", "converted", "saved"} /\ ContentRoot(soup) # "none") =>
        /\ DOMAIN ContentRootNode.attrs \subseteq KeepAttrs
        /\ \A e \in Range(ContentElements(soup)) : DOMAIN e.attrs \subseteq KeepAttrs

\* C9 (as claimed): a fetched page with neither a content container nor a
\* body stops the conversion with an error: no record is returned, and
\* nothing is downloaded, transcoded or saved.
C9_NoBodyIsFatal ==
    (page.fetch = "ok" /\ ContentRoot(page.soup) = "none") =>
        /\ pc \notin {"parsed", "download", "converted", "saved"}
        /\ result # "success"
        /\ ~images_dir
        /\ ~saved

\* C10: no failure of an image aborts the conversion: while the loop runs
\* nothing has failed and every image so far was tried, the conversion
\* returns a document only after every image of the list was tried, and a
\* run whose page was fetched ends only after every image was tried and the
\* document was returned.
C10_ImageFailureNeverAborts ==
    /\ pc = "download" =>
          /\ result = "none"
          /\ idx = Len(results)
          /\ idx <= Len(article_info.images)
    /\ pc \in {"converted", "saved"} =>
          /\ Len(results) = Len(article_info.images)
          /\ doc # <<>>
          /\ result = "none"
    /\ (pc = "finished" /\ page.fetch = "ok") =>
          /\ Len(results) = Len(article_info.images)
          /\ doc # <<>>

\* C10 witness: a document was returned after an image failed and a later
\* image of the list was still downloaded.
C10_Witness ==
    /\ pc = "converted"
    /\ \E i, j \in 1..Len(results) : i < j /\ results[i] = <<>> /\ results[j] # <<>>

\* the field extractors have run
FieldsRead ==
    \/ pc \in {"fields", "content", "parsed", "download", "converted", "saved"}
    \/ pc = "finished" /\ page.fetch = "ok"

\* the text of an element is of use to the title, the author, the time
UsableTitle(t) == Strip(t) # <<>> /\ Strip(t) # PlatformName
UsableAuthor(t) == Strip(t) # <<>>
UsableTime(t) == \E i \in 1..Len(t) : DateMatchEnd(t, i) > 0

\* no selector of the cascade matches an element with usable text
NoneUsable(found, Usable(_)) ==
    \A k \in 1..Len(found) : found[k] = <<>> \/ ~Usable(found[k][1])

\* C19: on a page where no selector of a field yields usable text, the
\* extraction raises nothing (it goes on to the content, and no error is
\* reported) and the field is the documented default: the title sentinel,
\* the author sentinel, the empty string for the publish time.
C19_DefaultsNeverRaise ==
    /\ [][pc = "fetched" => pc' = "fields" /\ result' = "none"]_pipeVars
    /\ [](FieldsRead =>
            /\ NoneUsable(page.soup.found.title, UsableTitle) =>
                    article_info.title = UnknownTitle
            /\ NoneUsable(page.soup.found.author, UsableAuthor) =>
                    article_info.author = UnknownAuthor
            /\ NoneUsable(page.soup.found.time, UsableTime) =>
                    article_info.publish_time = <<>>)

\* C19 witness: the selectors matched blank elements, the platform's name
\* and a text without a date, and the three defaults were returned
C19_Witness ==
    /\ pc = "fields"
    /\ page.soup.found = FoundUnusable
    /\ article_info.title = UnknownTitle
    /\ article_info.author = UnknownAuthor
    /\ article_info.publish_time = <<>>

\* the positions of a conversion, in the order of its phases: the fetch,
\* the field extraction, the sanitizing, the image resolution, the download
\* loop, the transcoding with the header and the cleanup, the saving
PhaseOrder ==
    <<"start", "fetched", "fields", "content", "parsed", "download", "converted", "saved",
      "finished">>

PhaseIndex(p) == CHOOSE k \in 1..Len(PhaseOrder) : PhaseOrder[k] = p

\* C20: a conversion goes through its phases once each and in the fixed
\* order: every step leads to the next phase, stays in the download loop
\* for its next image, or ends the conversion (on an error, or after the
\* saving), and none leads back; the document is the cleanup of the header
\* joined to the transcoded markup; and the title, the author and the
\* publish time are what the extractors give on the page as it was
\* fetched, the tree being untouched until they have run.
C20_PhasesInOrder ==
    /\ [][\/ PhaseIndex(pc') = PhaseIndex(pc) + 1
          \/ pc = "download" /\ pc' = "download" /\ idx' = idx + 1
          \/ pc' = "finished" /\ result' = "error"]_pipeVars
    /\ [](pc \in {"fetched", "fields"} => soup = page.soup)
    /\ [](FieldsRead =>
            /\ article_info.title = ExtractTitle(page.soup.found.title)
            /\ article_info.author = ExtractAuthor(page.soup.found.author)
            /\ article_info.publish_time = ExtractPublishTime(page.soup.found.time))
    /\ [](pc = "converted" =>
            \E markdown_content \in TranscodedBodies :
                doc = CleanMarkdown(AddMetadataHeader(article_info, markdown_content)))

\* C20 witness: a conversion went through every phase, on a page whose
\* sanitizing took the field elements' classes and ids away after the
\* fields had been read, and with an image downloaded
C20_Witness ==
    /\ pc = "finished"
    /\ result = "success"
    /\ soup.found # page.soup.found
    /\ article_info.title # UnknownTitle
    /\ article_info.author # UnknownAuthor
    /\ article_info.publish_time # <<>>
    /\ Len(results) >= 1

(***************************************************************************)
(* The download loop on its own: _download_and_update_images is given a    *)
(* markup and a list of distinct image URLs (parse_article removes the     *)
(* duplicates), and every fetch draws its response.                        *)
(***************************************************************************)
ImageUrlSet == {AbsUrl, AmpUrl, HttpRelUrl}

ImageUrlLists ==
    {l \in SeqsUpTo(ImageUrlSet, MaxImages) : \A i, j \in 1..Len(l) : i # j => l[i] # l[j]}

\* a markup whose images reference the URLs of the list, each through the
\* standard or through the lazy-load attribute
MarkupOf(urls, attrs) ==
    SerializeAll([k \in 1..Len(urls) |-> Node(<<"i", "m", "g">>, [a \in {attrs[k]} |-> urls[k]])])

\* line 97: updated_html = html_content
ImagesInit ==
    /\ ipc = "loop"
    /\ image_urls \in ImageUrlLists
    /\ \E attrs \in [1..Len(image_urls) -> {"src", "data-src"}] :
          html_content = MarkupOf(image_urls, attrs)
    /\ ihtml = html_content
    /\ inext = 0
    /\ responses = <<>>
    /\ ifiles = <<>>
    /\ local_filenames = <<>>

\* lines 99-126: one turn of the loop
ImagesTurn ==
    /\ ipc = "loop"
    /\ inext < Len(image_urls)
    /\ \E resp \in Responses :
          LET img_url == image_urls[inext + 1]
              out == DownloadImage(img_url, resp, inext)
          IN /\ responses' = Append(responses, resp)
             /\ ifiles' = FilesAfter(ifiles, out)
             /\ ihtml' =
                   IF out.filename # <<>>
                   THEN RewriteImage(ihtml, img_url, RelativePath(out.filename))
                   ELSE ihtml
             /\ local_filenames' = Append(local_filenames, out.filename)
             /\ inext' = inext + 1
             /\ ipc' = IF AfterImage(out.filename) = "next" THEN "loop" ELSE "raised"
    /\ UNCHANGED <<html_content, image_urls>>
    /\ UNCHANGED <<cleanVars, docVars, pipeVars, nameVars, saveVars, resVars, guiVars, listVars, runVars>>

\* line 128: return updated_html
ImagesReturn ==
    /\ ipc = "loop"
    /\ inext = Len(image_urls)
    /\ ipc' = "returned"
    /\ UNCHANGED <<html_content, image_urls, ihtml, inext, responses, ifiles, local_filenames>>
    /\ UNCHANGED <<cleanVars, docVars, pipeVars, nameVars, saveVars, resVars, guiVars, listVars, runVars>>

(***************************************************************************)
(* Properties of the download loop.                                        *)
(***************************************************************************)
\* the fetch got through and reports a Content-Length that is a number
ReportsLength(resp) ==
    resp.net = "ok" /\ resp.status < 400 /\ IsInteger(resp.content_length)

\* image_<index>, the stem of the file name of the image at a position
StemAt(i) == <<"i", "m", "a", "g", "e", "_">> \o Pad3(i - 1)

\* the index a file name of the images directory carries: the number its
\* three digits after image_ read as
FileIndex(n) == ParseInt(SubSeq(n, 7, 9))

\* no file of the images directory belongs to the image at a position
NoFileAt(i) == \A n \in DOMAIN ifiles : FileIndex(n) # i - 1

\* C11: an image whose fetch reports a Content-Length over the ceiling is
\* skipped: nothing is returned for it, no file is made for it, the markup
\* holds no local path for it and still holds its remote reference, and the
\* loop raises nothing; a reported length equal to the ceiling does not
\* skip the image, which is saved when its body is a complete image.
C11_OversizeSkipped ==
    /\ ipc # "raised"
    /\ \A i \in 1..Len(responses) :
          LET resp == responses[i]
              url == image_urls[i]
          IN ReportsLength(resp) =>
                /\ ParseInt(resp.content_length) > MAX_IMAGE_SIZE =>
                      /\ local_filenames[i] = <<>>
                      /\ NoFileAt(i)
                      /\ ~Contains(ihtml, RelativePath(StemAt(i)))
                      /\ Contains(html_content, AttrText("src", url)) =>
                            Contains(ihtml, AttrText("src", url))
                /\ (/\ ParseInt(resp.content_length) = MAX_IMAGE_SIZE
                    /\ IsAbsoluteUrl(url)
                    /\ resp.stream = "complete"
                    /\ resp.bytes = "image") =>
                      /\ local_filenames[i] # <<>>
                      /\ ~NoFileAt(i)

\* C11 witness: the loop returned after an image over the ceiling was
\* skipped and an image of exactly the ceiling was saved.
C11_Witness ==
    /\ ipc = "returned"
    /\ \E i, j \in 1..Len(responses) :
          /\ responses[i] = RespOversize /\ local_filenames[i] = <<>>
          /\ responses[j] = RespAtCeiling /\ local_filenames[j] # <<>>

\* C12 (as claimed): after the download phase every file left in the images
\* directory holds an image whose download completed, whose size is within
\* the ceiling and whose bytes were verified; every other attempt left no
\* file.
C12_OnlyVerifiedFilesLeft ==
    ipc = "returned" =>
        \A n \in DOMAIN ifiles :
            /\ ifiles[n].holds = "image"
            /\ ifiles[n].size <= MAX_IMAGE_SIZE
            /\ \E i \in 1..Len(local_filenames) : local_filenames[i] = n

\* C15: every downloaded image is named image_<its position in the list,
\* counted from 0 and padded to 3 digits><extension>, failed images
\* consuming their index, and no two images of the run get the same name.
C15_IndexedNames ==
    /\ \A i \in 1..Len(local_filenames) :
          local_filenames[i] # <<>> =>
             /\ StartsWith(local_filenames[i], <<"i", "m", "a", "g", "e", "_">>)
             /\ FileIndex(local_filenames[i]) = i - 1
             /\ local_filenames[i][10] = "."
             /\ Len(local_filenames[i]) > 10
             /\ local_filenames[i] \in DOMAIN ifiles
    /\ \A i, j \in 1..Len(local_filenames) :
          (i # j /\ local_filenames[i] # <<>>) => local_filenames[i] # local_filenames[j]

\* C15 witness: the first image failed and the second was saved as image_001
C15_Witness ==
    /\ Len(local_filenames) >= 2
    /\ local_filenames[1] = <<>>
    /\ StartsWith(local_filenames[2], <<"i", "m", "a", "g", "e", "_", "0", "0", "1", ".">>)

\* name="value" as it stands in a markup, the value written as it is
Literal(name, value) == AttrNameChars(name) \o <<"=", Quote>> \o value \o <<Quote>>

\* C27: an image that was saved and that the markup references through
\* data-src="<url>" has, in the markup returned, a standard source
\* attribute src="images/<local filename>" (an attribute of its own, after
\* a space) and no lazy-load attribute, neither with the URL nor with the
\* local path: the four substitutions in sequence give what replacing
\* every attribute by itself gives.
C27_LazyLoadRewritten ==
    ipc = "returned" =>
        \A i \in 1..Len(image_urls) :
            (/\ local_filenames[i] # <<>>
             /\ Contains(html_content, Literal("data-src", image_urls[i]))) =>
                /\ Contains(ihtml, <<SP>> \o Literal("src", RelativePath(local_filenames[i])))
                /\ ~Contains(ihtml, Literal("data-src", RelativePath(local_filenames[i])))
                /\ ~Contains(ihtml, Literal("data-src", image_urls[i]))

(***************************************************************************)
(* The image resolver on its own: _extract_images is given a tree of image *)
(* elements, among them references the filter is there for, in both cases  *)
(* of letters, and the same URL behind the standard and the lazy-load      *)
(* attribute.                                                              *)
(***************************************************************************)
\* <img src="https://h/e.GIF"/>
ImgGif == Node(<<"i", "m", "g">>, [a \in {"src"} |-> <<"h", "t", "t", "p", "s", ":", "/", "/", "h", "/", "e", ".", "G", "I", "F">>])
\* <img src="Avatar/u.jpg"/>
ImgAvatar == Node(<<"i", "m", "g">>, [a \in {"src"} |-> <<"A", "v", "a", "t", "a", "r", "/", "u", ".", "j", "p", "g">>])
\* <img data-src="//h/QRcode.png"/>
ImgQrcode == Node(<<"i", "m", "g">>, [a \in {"data-src"} |-> <<"/", "/", "h", "/", "Q", "R", "c", "o", "d", "e", ".", "p", "n", "g">>])
\* <img src="/1x1.PNG?t"/>
ImgPixel == Node(<<"i", "m", "g">>, [a \in {"src"} |-> <<"/", "1", "x", "1", ".", "P", "N", "G", "?", "t">>])
\* <img src="data:image/png;base64,A"/>
ImgDataImage == Node(<<"i", "m", "g">>, [a \in {"src"} |-> <<"d", "a", "t", "a", ":", "i", "m", "a", "g", "e", "/", "p", "n", "g", ";", "b", "a", "s", "e", "6", "4", ",", "A">>])
\* <img src="data:;base64,A"/>: a data URI that does not name its media type
ImgDataBare == Node(<<"i", "m", "g">>, [a \in {"src"} |-> <<"d", "a", "t", "a", ":", ";", "b", "a", "s", "e", "6", "4", ",", "A">>])
\* <img data-src="https://h/i.jpg" src="data:image/gif;base64,A"/>: the
\* lazy-load form, its src a placeholder
ImgLazyPlaceholder == Node(<<"i", "m", "g">>, [a \in {"data-src", "src"} |-> IF a = "data-src" THEN <<"h", "t", "t", "p", "s", ":", "/", "/", "h", "/", "i", ".", "j", "p", "g">> ELSE <<"d", "a", "t", "a", ":", "i", "m", "a", "g", "e", "/", "g", "i", "f", ";", "b", "a", "s", "e", "6", "4", ",", "A">>])
\* <img/>
ImgNoSource == Node(<<"i", "m", "g">>, <<>>)

ResolveElems ==
    {ImgAbs, ImgLazy, ImgLazyPlaceholder, ImgRel, ImgGif, ImgAvatar, ImgQrcode, ImgPixel,
     ImgDataImage, ImgDataBare, ImgNoSource}

ResolveInit ==
    /\ rpc = "input"
    /\ rsoup \in [body : {TRUE}, container : {<<>>}, elems : SeqsUpTo(ResolveElems, MaxImgTags),
                  outer : {<<>>}, found : {FoundNothing}]
    /\ rimages = <<>>

\* _extract_images(soup, base_url)
Resolve ==
    /\ rpc = "input"
    /\ rimages' \in ExtractImages(rsoup, SourceUrl)
    /\ rpc' = "resolved"
    /\ UNCHANGED rsoup
    /\ UNCHANGED <<cleanVars, docVars, pipeVars, imgVars, nameVars, saveVars, guiVars, listVars, runVars>>

(***************************************************************************)
(* Properties of the image resolver.                                       *)
(***************************************************************************)
\* the candidate URLs of the tree: every reference, made absolute
Candidates == {ToAbsolute(ImgSrc(e), SourceUrl) : e \in {x \in Range(AllImgTags(rsoup)) : ImgSrc(x) # <<>>}}

\* a data URI: its scheme is data, in any case of letters
IsDataUri(u) == Len(u) >= 5 /\ Lower(SubSeq(u, 1, 5)) = <<"d", "a", "t", "a", ":">>

\* what the claim excludes, all tests case-insensitive
Excluded(u) ==
    \/ IsDataUri(u)
    \/ Len(u) >= 4 /\ Lower(SubSeq(u, Len(u) - 3, Len(u))) = <<".", "g", "i", "f">>
    \/ \E p \in {<<"a", "v", "a", "t", "a", "r">>, <<"q", "r", "c", "o", "d", "e">>,
                  <<"1", "x", "1", ".", "p", "n", "g">>} :
          \E k \in 1..Len(u) : OccursAt(Lower(u), p, k)

\* C13 (as claimed): no URL that is a data URI, ends in .gif or holds
\* avatar, qrcode or 1x1.png, in whatever case of letters, is in the list
\* the resolver returns.
C13_FilteredNeverListed ==
    rpc = "resolved" => \A i \in 1..Len(rimages) : ~Excluded(rimages[i])

\* C14: the list holds every accepted URL exactly once, however many
\* elements reference it and through whichever attribute, and nothing else.
C14_ListedOnce ==
    rpc = "resolved" =>
        /\ \A u \in Candidates :
              IsValidImageUrl(u) => Cardinality({i \in 1..Len(rimages) : rimages[i] = u}) = 1
        /\ \A i \in 1..Len(rimages) : rimages[i] \in Candidates /\ IsValidImageUrl(rimages[i])

\* C14 witness: two elements reference the same URL, one through src and
\* one through data-src, and the list holds it once.
C14_Witness ==
    /\ rpc = "resolved"
    /\ \E i, j \in 1..Len(rsoup.elems) :
          /\ i # j
          /\ Get(rsoup.elems[i], "data-src") = AbsUrl
          /\ Get(rsoup.elems[j], "data-src") = <<>>
          /\ Get(rsoup.elems[j], "src") = AbsUrl
    /\ rimages = <<AbsUrl>>

(***************************************************************************)
(* FileManager._clean_filename and FileManager._generate_filename          *)
(***************************************************************************)
\* INVALID_FILENAME_CHARS
INVALID_FILENAME_CHARS == {"<", ">", ":", Quote, "/", "\\", "|", "?", "*"}

\* MAX_FILENAME_LENGTH
MAX_FILENAME_LENGTH == 100

\* for char in INVALID_FILENAME_CHARS: filename = filename.replace(char, '_')
ReplaceInvalid(filename) ==
    [k \in 1..Len(filename) |->
        IF filename[k] \in INVALID_FILENAME_CHARS THEN "_" ELSE filename[k]]

\* re.sub of a run of one or more characters of a class by one character
RECURSIVE CollapseRunsFrom(_, _, _, _, _)
CollapseRunsFrom(t, class, r, lo, hi) ==
    IF lo > hi THEN <<>>
    ELSE IF lo = hi
         THEN (IF t[lo] \notin class THEN <<t[lo]>>
               ELSE IF lo > 1 /\ t[lo - 1] \in class THEN <<>>
               ELSE <<r>>)
         ELSE LET mid == (lo + hi) \div 2
              IN CollapseRunsFrom(t, class, r, lo, mid)
                     \o CollapseRunsFrom(t, class, r, mid + 1, hi)

CollapseRuns(t, class, r) == CollapseRunsFrom(t, class, r, 1, Len(t))

\* str.strip(chars)
StripChars(t, chars) ==
    LET keep == {k \in 1..Len(t) : t[k] \notin chars}
    IN IF keep = {} THEN <<>> ELSE SubSeq(t, Min(keep), Max(keep))

CleanFilename(filename) ==
    LET replaced == ReplaceInvalid(filename)
        joined == CollapseRuns(replaced, Whitespace, "_")
        single == CollapseRuns(joined, {"_"}, "_")
        stripped == StripChars(single, {"_", "."})
    IN IF stripped = <<>> THEN <<"u", "n", "t", "i", "t", "l", "e", "d">> ELSE stripped

\* the extension of an article file
MdExt == <<".", "m", "d">>

\* _generate_filename, with datetime.now().strftime("%Y%m%d_%H%M%S") given
GenerateFilename(title, now) ==
    LET t == Strip(title)
        filename == IF t # <<>> /\ t # UnknownTitle
                    THEN CleanFilename(t)
                    ELSE <<"a", "r", "t", "i", "c", "l", "e", "_">> \o now
        cut == IF Len(filename) > MAX_FILENAME_LENGTH
               THEN SubSeq(filename, 1, MAX_FILENAME_LENGTH)
               ELSE filename
    IN cut \o MdExt

(***************************************************************************)
(* The file name on its own: _generate_filename for a title and a time.    *)
(* The titles are every short text over letters, invalid characters,       *)
(* whitespace, underscores and dots, the same texts behind a run of        *)
(* letters that brings them to the maximum length, and the sentinel.       *)
(***************************************************************************)
NameAlphabet == {"a", "_", ".", SP, "/"}

ShortTitles == SeqsUpTo(NameAlphabet, MaxTitleLen)

\* a run of letters two short of the maximum length
LongRun == [k \in 1..(MAX_FILENAME_LENGTH - 2) |-> "a"]

NameTitles == ShortTitles \cup {LongRun \o t : t \in ShortTitles} \cup {UnknownTitle}

\* two moments, formatted %Y%m%d_%H%M%S
Timestamps ==
    {<<"2", "0", "2", "6", "0", "1", "0", "1", "_", "0", "0", "0", "0", "0", "0">>,
     <<"2", "0", "2", "6", "1", "2", "3", "1", "_", "2", "3", "5", "9", "5", "9">>}

NameInit ==
    /\ npc = "input"
    /\ ntitle \in NameTitles
    /\ nnow \in Timestamps
    /\ nfilename = <<>>

GenerateName ==
    /\ npc = "input"
    /\ nfilename' = GenerateFilename(ntitle, nnow)
    /\ npc' = "named"
    /\ UNCHANGED <<ntitle, nnow>>
    /\ UNCHANGED <<cleanVars, docVars, pipeVars, imgVars, saveVars, resVars, guiVars, listVars, runVars>>

(***************************************************************************)
(* Properties of the file name.                                            *)
(***************************************************************************)
\* the file name without its .md
NameStem == SubSeq(nfilename, 1, Len(nfilename) - Len(MdExt))

\* C18 (as claimed): for every title the stem of the file name is not
\* empty, is no longer than the maximum length, holds no invalid character,
\* no whitespace and no two underscores in a row, and neither begins nor
\* ends with an underscore or a dot; an empty title and the sentinel give
\* the name made of the time.
C18_StemWellFormed ==
    npc = "named" =>
        /\ EndsWith(nfilename, MdExt)
        /\ Len(NameStem) >= 1
        /\ Len(NameStem) <= MAX_FILENAME_LENGTH
        /\ \A k \in 1..Len(NameStem) :
              NameStem[k] \notin INVALID_FILENAME_CHARS \cup Whitespace
        /\ \A k \in 1..(Len(NameStem) - 1) : ~(NameStem[k] = "_" /\ NameStem[k + 1] = "_")
        /\ NameStem[1] \notin {"_", "."}
        /\ NameStem[Len(NameStem)] \notin {"_", "."}
        /\ (Strip(ntitle) = <<>> \/ Strip(ntitle) = UnknownTitle) =>
              NameStem = <<"a", "r", "t", "i", "c", "l", "e", "_">> \o nnow

(***************************************************************************)
(* FileManager._get_unique_filepath and FileManager.save_article.  The     *)
(* output directory is the set of its file names; a directory may also     *)
(* hold a whole series name_1.ext .. name_n.ext, kept as its length.       *)
(***************************************************************************)
\* the bound of the loop: if counter > 9999
CounterLimit == 9999

\* name, ext = os.path.splitext(filename)
NameOf(filename) == SubSeq(filename, 1, Len(filename) - Len(SplitExt(filename)))

\* f"{name}_{counter}{ext}"
NewFilename(filename, c) ==
    NameOf(filename) \o <<"_">> \o Decimal(c) \o SplitExt(filename)

\* the path is one of the series name_1.ext .. name_n.ext of the directory
InSeries(series, path) ==
    LET head == NameOf(series.of) \o <<"_">>
        ext == SplitExt(series.of)
        mid == SubSeq(path, Len(head) + 1, Len(path) - Len(ext))
    IN /\ series.upto > 0
       /\ Len(path) > Len(head) + Len(ext)
       /\ StartsWith(path, head)
       /\ EndsWith(path, ext)
       /\ IsInteger(mid)
       /\ mid[1] # "0"
       /\ ParseInt(mid) <= series.upto

\* mutant: every path looks free
NothingExists(dir, path) == FALSE

\* os.path.exists(path)
PathExists(dir, path) == path \in dir.listed \/ InSeries(dir.series, path)

\* mutant: the loop gives up after its first attempt
ExhaustedEarly(c) == c > 1

\* if counter > 9999: raise
Exhausted(c) == c > CounterLimit

\* the title of the articles saved, and the name it gives
SaveTitle == <<"T">>

BaseName == GenerateFilename(SaveTitle, <<>>)

NoSeries == [of |-> <<>>, upto |-> 0]

\* the directories: any of the first three names taken, and the name with
\* all of its series, all but the last, or all of it with the name free
SaveDirs ==
    [listed : SUBSET {BaseName, NewFilename(BaseName, 1), NewFilename(BaseName, 2)},
     series : {NoSeries}]
    \cup [listed : {{BaseName}},
          series : {[of |-> BaseName, upto |-> CounterLimit],
                    [of |-> BaseName, upto |-> CounterLimit - 1]}]
    \cup [listed : {{}}, series : {[of |-> BaseName, upto |-> CounterLimit]}]

SaveInit ==
    /\ spc = "ready"
    /\ directory \in SaveDirs
    /\ sfilename = <<>>
    /\ counter = 0
    /\ filepath = <<>>
    /\ swritten = <<>>
    /\ nsaved = 0

\* save_article, lines 32-38, and _get_unique_filepath, lines 118-126: the
\* name is made and the base path is tried
SaveBegin ==
    /\ spc = "ready"
    /\ nsaved < MaxSaves
    /\ \E now \in Timestamps :
          LET filename == GenerateFilename(SaveTitle, now)
          IN /\ sfilename' = filename
             /\ IF ~PathExists(directory, filename)
                THEN filepath' = filename /\ counter' = 0 /\ spc' = "write"
                ELSE filepath' = <<>> /\ counter' = 1 /\ spc' = "probe"
    /\ nsaved' = nsaved + 1
    /\ UNCHANGED <<directory, swritten>>
    /\ UNCHANGED <<cleanVars, docVars, pipeVars, imgVars, nameVars, resVars, guiVars, listVars, runVars>>

\* _get_unique_filepath, lines 128-139: one turn of the loop
Probe ==
    /\ spc = "probe"
    /\ LET new_filename == NewFilename(sfilename, counter)
       IN IF ~PathExists(directory, new_filename)
          THEN filepath' = new_filename /\ spc' = "write" /\ UNCHANGED counter
          ELSE /\ counter' = counter + 1
               /\ spc' = IF Exhausted(counter + 1) THEN "raised" ELSE "probe"
               /\ UNCHANGED filepath
    /\ UNCHANGED <<directory, sfilename, swritten, nsaved>>
    /\ UNCHANGED <<cleanVars, docVars, pipeVars, imgVars, nameVars, resVars, guiVars, listVars, runVars>>

\* save_article, lines 41-44: the file is written and its path returned
WriteFile ==
    /\ spc = "write"
    /\ directory' = [directory EXCEPT !.listed = @ \cup {filepath}]
    /\ swritten' = Append(swritten, filepath)
    /\ spc' = "ready"
    /\ UNCHANGED <<sfilename, counter, filepath, nsaved>>
    /\ UNCHANGED <<cleanVars, docVars, pipeVars, imgVars, nameVars, resVars, guiVars, listVars, runVars>>

(***************************************************************************)
(* Properties of the saving.                                               *)
(***************************************************************************)
\* a file of that name is in the directory
Taken(path) == path \in directory.listed \/ InSeries(directory.series, path)

\* the files the directory held before anything was saved
WasThere(path) == Taken(path) /\ path \notin Range(swritten)

\* C16: save_article never writes over a file: the path it is about to
\* write is free, it is the desired name when that is free and otherwise
\* name_k.ext for the smallest k >= 1 that is free; the files written are
\* all different, and two identically titled articles saved into a
\* directory that held neither name are written to the name and to name_1.
C16_NeverOverwrites ==
    /\ spc = "write" =>
          /\ ~Taken(filepath)
          /\ IF ~Taken(sfilename) THEN filepath = sfilename
             ELSE /\ counter >= 1
                  /\ filepath = NewFilename(sfilename, counter)
                  /\ \A j \in 1..(counter - 1) : Taken(NewFilename(sfilename, j))
    /\ \A i, j \in 1..Len(swritten) : i # j => swritten[i] # swritten[j]
    /\ (/\ Len(swritten) = 2
        /\ ~WasThere(BaseName)
        /\ ~WasThere(NewFilename(BaseName, 1))) =>
          swritten = <<BaseName, NewFilename(BaseName, 1)>>

\* C16 witness: two identically titled articles were saved into an empty
\* directory, the second as T_1.md
C16_Witness ==
    /\ spc = "ready"
    /\ swritten = <<<<"T", ".", "m", "d">>, <<"T", "_", "1", ".", "m", "d">>>>
    /\ directory.listed = Range(swritten)

\* C17: the path allocator always terminates.  The path it returns does
\* not exist; it raises only when the name and every name_1 .. name_9999
\* are taken, after 9999 attempts at a suffix, and with nothing written by
\* that call; the counter never passes the bound, and every turn of the
\* loop either ends the search (a path is returned, or the error raised)
\* or raises the counter by one, so that a search takes at most 9999 turns.
C17_AllocatorTerminates ==
    /\ [](spc = "write" => ~Taken(filepath))
    /\ [](spc = "raised" =>
            /\ Taken(sfilename)
            /\ \A k \in 1..CounterLimit : Taken(NewFilename(sfilename, k))
            /\ counter = CounterLimit + 1
            /\ filepath = <<>>
            /\ Len(swritten) = nsaved - 1)
    /\ [](counter <= CounterLimit + 1)
    /\ [][spc = "probe" =>
              \/ spc' \in {"write", "raised"}
              \/ spc' = "probe" /\ counter' = counter + 1 /\ directory' = directory]_saveVars

\* C17 witness: the name and all of its 9999 suffixes were taken, and the
\* allocator raised
C17_Witness ==
    /\ spc = "raised"
    /\ counter = CounterLimit + 1
    /\ directory.series.upto = CounterLimit

(***************************************************************************)
(* The front end: start_collection, stop_collection, collection_worker,    *)
(* collection_finished and on_closing.  A worker thread is a record: where *)
(* it is in collection_worker, the images directory and the .md file it    *)
(* made, and how it ended; the list of images is finite, and the loop over *)
(* it goes on for as long as it has another image.  Three fields are       *)
(* there for the properties only: whether Stop was pressed while the       *)
(* thread ran, whether the call it was in when Stop was pressed is still   *)
(* running, and whether it began a piece of work after the request.        *)
(***************************************************************************)
\* threading.Thread(target=self.collection_worker, ...).start()
NewWorker ==
    [pc |-> "parse", made |-> FALSE, md |-> "none", outcome |-> "none",
     requested |-> FALSE, grace |-> FALSE, late |-> FALSE]

\* the thread has not left collection_worker
Running(wk) == wk.pc # "done"

\* the worker goes through a piece of expensive work: an image download,
\* the transcoding, the save; it is the call that was running when Stop
\* was pressed, or it was begun after the request
Begins(wk) == [wk EXCEPT !.grace = FALSE, !.late = @ \/ (wk.requested /\ ~wk.grace)]

\* the worker leaves collection_worker
Ends(wk, outcome) == [wk EXCEPT !.pc = "done", !.outcome = outcome, !.grace = FALSE]

\* mutant: the finally clause does not queue collection_finished
NotScheduled(queued) == queued

\* finally: self.root.after(0, self.collection_finished)
Scheduled(queued) == queued + 1

\* __init__: the window is up, nothing is running
GuiInit ==
    /\ is_working = FALSE
    /\ collect_button = "normal"
    /\ stop_button = "disabled"
    /\ window = "open"
    /\ callbacks = 0
    /\ workers = <<>>

\* start_collection, from the start button or from the Return key, which
\* is bound to it whatever the state of the button; the inputs are valid
StartCollection(key) ==
    /\ window = "open"
    /\ key = "button" => collect_button = "normal"
    /\ ~is_working
    /\ Len(workers) < MaxWorkers
    /\ is_working' = TRUE
    /\ collect_button' = "disabled"
    /\ stop_button' = "normal"
    /\ workers' = Append(workers, NewWorker)
    /\ UNCHANGED <<window, callbacks>>
    /\ UNCHANGED <<cleanVars, docVars, pipeVars, imgVars, nameVars, saveVars, resVars, listVars, runVars>>

\* stop_collection, from the stop button
StopCollection ==
    /\ window = "open"
    /\ stop_button = "normal"
    /\ is_working' = FALSE
    /\ workers' = [w \in DOMAIN workers |->
                      IF Running(workers[w]) /\ ~workers[w].requested
                      THEN [workers[w] EXCEPT
                                !.requested = TRUE,
                                !.grace = workers[w].pc \in {"parse", "download", "save"}]
                      ELSE workers[w]]
    /\ UNCHANGED <<collect_button, stop_button, window, callbacks>>
    /\ UNCHANGED <<cleanVars, docVars, pipeVars, imgVars, nameVars, saveVars, resVars, listVars, runVars>>

\* collection_worker, line 255: parse_article returns the record, or
\* raises, and the except and finally clauses run
ParseReturns(w) ==
    /\ window = "open"
    /\ w \in DOMAIN workers
    /\ workers[w].pc = "parse"
    /\ \E fetched \in BOOLEAN :
          IF fetched
          THEN /\ workers' = [workers EXCEPT ![w] = [@ EXCEPT !.pc = "check1", !.grace = FALSE]]
               /\ UNCHANGED callbacks
          ELSE /\ workers' = [workers EXCEPT ![w] = Ends(@, "fetch_error")]
               /\ callbacks' = Scheduled(callbacks)
    /\ UNCHANGED <<is_working, collect_button, stop_button, window>>
    /\ UNCHANGED <<cleanVars, docVars, pipeVars, imgVars, nameVars, saveVars, resVars, listVars, runVars>>

\* collection_worker, lines 257-258, and convert_to_markdown, lines 59-60:
\* the flag is read; the worker returns, or the images directory is made
CheckParsed(w) ==
    /\ window = "open"
    /\ w \in DOMAIN workers
    /\ workers[w].pc = "check1"
    /\ IF is_working
       THEN /\ workers' = [workers EXCEPT ![w] = [@ EXCEPT !.pc = "download", !.made = TRUE]]
            /\ UNCHANGED callbacks
       ELSE /\ workers' = [workers EXCEPT ![w] = Ends(@, "stopped")]
            /\ callbacks' = Scheduled(callbacks)
    /\ UNCHANGED <<is_working, collect_button, stop_button, window>>
    /\ UNCHANGED <<cleanVars, docVars, pipeVars, imgVars, nameVars, saveVars, resVars, listVars, runVars>>

\* _download_and_update_images, lines 99-126: the list has one more image,
\* which is tried; a failed image is skipped
DownloadOne(w) ==
    /\ window = "open"
    /\ w \in DOMAIN workers
    /\ workers[w].pc = "download"
    /\ workers' = [workers EXCEPT ![w] = Begins(@)]
    /\ UNCHANGED <<is_working, collect_button, stop_button, window, callbacks>>
    /\ UNCHANGED <<cleanVars, docVars, pipeVars, imgVars, nameVars, saveVars, resVars, listVars, runVars>>

\* convert_to_markdown, lines 70-82: the list has no more image; the
\* transcoding, the header and the cleanup; an exception is raised again
\* and ends the worker
TranscodeAll(w) ==
    /\ window = "open"
    /\ w \in DOMAIN workers
    /\ workers[w].pc = "download"
    /\ \E converted \in BOOLEAN :
          IF converted
          THEN /\ workers' = [workers EXCEPT ![w] = [Begins(@) EXCEPT !.pc = "check2"]]
               /\ UNCHANGED callbacks
          ELSE /\ workers' = [workers EXCEPT ![w] = Ends(Begins(@), "error")]
               /\ callbacks' = Scheduled(callbacks)
    /\ UNCHANGED <<is_working, collect_button, stop_button, window>>
    /\ UNCHANGED <<cleanVars, docVars, pipeVars, imgVars, nameVars, saveVars, resVars, listVars, runVars>>

\* collection_worker, lines 275-276: the flag is read again
CheckConverted(w) ==
    /\ window = "open"
    /\ w \in DOMAIN workers
    /\ workers[w].pc = "check2"
    /\ IF is_working
       THEN /\ workers' = [workers EXCEPT ![w] = [@ EXCEPT !.pc = "save"]]
            /\ UNCHANGED callbacks
       ELSE /\ workers' = [workers EXCEPT ![w] = Ends(@, "stopped")]
            /\ callbacks' = Scheduled(callbacks)
    /\ UNCHANGED <<is_working, collect_button, stop_button, window>>
    /\ UNCHANGED <<cleanVars, docVars, pipeVars, imgVars, nameVars, saveVars, resVars, listVars, runVars>>

\* collection_worker, lines 285-308, and save_article, lines 30-47: the
\* file is written whole; or it cannot be opened and nothing is made; or
\* it is opened, which creates it, and the write fails; save_article
\* raises again without removing the file
SaveFile(w) ==
    /\ window = "open"
    /\ w \in DOMAIN workers
    /\ workers[w].pc = "save"
    /\ \E written \in {"complete", "partial", "none"} :
          workers' = [workers EXCEPT ![w] =
                         [Ends(Begins(@),
                               IF written = "complete" THEN "success" ELSE "error")
                            EXCEPT !.md = written]]
    /\ callbacks' = Scheduled(callbacks)
    /\ UNCHANGED <<is_working, collect_button, stop_button, window>>
    /\ UNCHANGED <<cleanVars, docVars, pipeVars, imgVars, nameVars, saveVars, resVars, listVars, runVars>>

\* a step of the worker thread w
WorkerStep(w) ==
    \/ ParseReturns(w)
    \/ CheckParsed(w)
    \/ DownloadOne(w)
    \/ TranscodeAll(w)
    \/ CheckConverted(w)
    \/ SaveFile(w)

\* collection_finished, run by the main loop
CollectionFinished ==
    /\ window = "open"
    /\ callbacks > 0
    /\ is_working' = FALSE
    /\ collect_button' = "normal"
    /\ stop_button' = "disabled"
    /\ callbacks' = callbacks - 1
    /\ UNCHANGED <<window, workers>>
    /\ UNCHANGED <<cleanVars, docVars, pipeVars, imgVars, nameVars, saveVars, resVars, listVars, runVars>>

\* on_closing, the user confirming: the window is destroyed, the main loop
\* returns and the process ends, its daemon threads with it
OnClosing ==
    /\ window = "open"
    /\ is_working' = FALSE
    /\ window' = "closed"
    /\ UNCHANGED <<collect_button, stop_button, callbacks, workers>>
    /\ UNCHANGED <<cleanVars, docVars, pipeVars, imgVars, nameVars, saveVars, resVars, listVars, runVars>>

(***************************************************************************)
(* Properties of the front end.                                            *)
(***************************************************************************)
\* C21: every conversion that ends either ends in success with its .md
\* file written whole, or ends in failure or on a stop request with no
\* .md file made by it; a conversion whose page fetch fails ends with
\* neither a file nor a directory made.
C21_CompleteOrNothing ==
    \A w \in DOMAIN workers :
        ~Running(workers[w]) =>
            /\ \/ workers[w].outcome = "success" /\ workers[w].md = "complete"
               \/ workers[w].outcome # "success" /\ workers[w].md = "none"
            /\ workers[w].outcome = "fetch_error" => ~workers[w].made

\* C22: once Stop was pressed while a conversion runs, the worker begins
\* no image download, no transcoding and no save; only the call that was
\* running when Stop was pressed goes on to its end.
C22_NoWorkAfterStop == \A w \in DOMAIN workers : ~workers[w].late

\* C24: at most one worker thread is running at any time.
C24_OneWorker == Cardinality({w \in DOMAIN workers : Running(workers[w])}) <= 1

\* C25: a worker that was started, for which Stop is never pressed and
\* the window never closed, and whose steps raise no error, eventually
\* saves its file and reports success.
C25_NeverAbandoned ==
    \A w \in 1..MaxWorkers :
        (Len(workers) >= w)
            ~> \/ window = "closed"
               \/ /\ Len(workers) >= w
                  /\ \/ workers[w].outcome \in {"success", "error", "fetch_error"}
                     \/ workers[w].requested

\* the front end is idle
FrontEndIdle == ~is_working /\ collect_button = "normal" /\ stop_button = "disabled"

\* C26: after a worker has left collection_worker, however it ended, the
\* front end, as long as its window is there, eventually is idle:
\* is_working false, the start button enabled, the stop button disabled.
C26_BackToIdle ==
    \A w \in 1..MaxWorkers :
        (Len(workers) >= w /\ ~Running(workers[w])) ~> (window = "closed" \/ FrontEndIdle)

\* C26 witness: a worker returned on a stop request, collection_finished
\* ran, and the front end is idle
C26_Witness ==
    /\ window = "open"
    /\ callbacks = 0
    /\ FrontEndIdle
    /\ \E w \in DOMAIN workers : workers[w].outcome = "stopped"

(***************************************************************************)
(* WeChatProfileParser.parse_profile_articles.  The page fetched for the   *)
(* seed holds recommendation elements, each with its class, and with the   *)
(* title attribute, the text and the href of its first link; and the items *)
(* of the arrays embedded in its scripts, as json.loads gives them.        *)
(***************************************************************************)
\* '/s/' in profile_url or '/s?' in profile_url
IsArticleLink(url) == Contains(url, <<"/", "s", "/">>) \/ Contains(url, <<"/", "s", "?">>)

\* an element matches the k-th of the recommendation selectors
MatchesRecommendation(el, k) ==
    CASE k = 1 -> el.class = <<"r", "e", "l", "a", "t", "e", "d", "_", "a", "r", "t", "i", "c", "l", "e">>
      [] k = 2 -> el.class = <<"r", "e", "c", "o", "m", "m", "e", "n", "d", "_", "a", "r", "t", "i", "c", "l", "e">>
      [] k = 3 -> Contains(el.class, <<"r", "e", "c", "o", "m", "m", "e", "n", "d">>)
      [] k = 4 -> Contains(el.class, <<"r", "e", "l", "a", "t", "e", "d">>)

\* a summary; <<>> stands for None
Summary(title, url) == [title |-> title, url |-> url]

\* _parse_article_element: the title attribute or else the stripped text
\* of the link, and its href; None unless both are there
ParseArticleElement(el) ==
    LET title == IF el.title # <<>> THEN el.title ELSE Strip(el.text)
    IN IF el.link /\ title # <<>> /\ el.href # <<>> THEN <<Summary(title, el.href)>> ELSE <<>>

\* 'https://mp.weixin.qq.com'
ProfileHost == <<"h", "t", "t", "p", "s", ":", "/", "/", "m", "p", ".", "w", "e", "i", "x", "i", "n", ".", "q", "q", ".", "c", "o", "m">>

\* _parse_json_article: the stripped title and content_url of a dict, the
\* host put before a URL that does not start with 'http'
ParseJsonArticle(item) ==
    LET title == Strip(item.title)
        content_url == Strip(item.content_url)
        url == IF content_url # <<>> /\ ~StartsWith(content_url, <<"h", "t", "t", "p">>)
               THEN ProfileHost \o content_url ELSE content_url
    IN IF item.dict /\ title # <<>> /\ url # <<>> THEN <<Summary(title, url)>> ELSE <<>>

RECURSIVE ParseAll(_, _, _)
\* the summaries of the elements that match the k-th selector, in document order
ParseAll(elements, k, i) ==
    IF i > Len(elements) THEN <<>>
    ELSE (IF MatchesRecommendation(elements[i], k) THEN ParseArticleElement(elements[i]) ELSE <<>>)
         \o ParseAll(elements, k, i + 1)

RECURSIVE ParseItems(_)
ParseItems(items) ==
    IF items = <<>> THEN <<>> ELSE ParseJsonArticle(items[1]) \o ParseItems(Tail(items))

\* the list before the deduplication: selector by selector, then the scripts
Discovered(pg) ==
    ParseAll(pg.elements, 1, 1) \o ParseAll(pg.elements, 2, 1) \o ParseAll(pg.elements, 3, 1)
        \o ParseAll(pg.elements, 4, 1) \o ParseItems(pg.items)

\* mutant: nothing is removed
AllArticles(articles) == articles

RECURSIVE UniqueFrom(_, _, _)
UniqueFrom(articles, i, seen_urls) ==
    IF i > Len(articles) THEN <<>>
    ELSE IF articles[i].url \in seen_urls THEN UniqueFrom(articles, i + 1, seen_urls)
    ELSE <<articles[i]>> \o UniqueFrom(articles, i + 1, seen_urls \cup {articles[i].url})

\* the loop over seen_urls, lines 134-139
UniqueArticles(articles) == UniqueFrom(articles, 1, {})

\* articles[:max_count], max_count >= 0
FirstN(articles, count) == SubSeq(articles, 1, IF count < Len(articles) THEN count ELSE Len(articles))

ArticleUrl1 == ProfileHost \o <<"/", "s", "/", "1">>
ArticleUrl2 == ProfileHost \o <<"/", "s", "/", "2">>
OtherUrl == <<"h", "t", "t", "p", ":", "/", "/", "x">>

LinkElement(class, link, title, text, href) ==
    [class |-> class, link |-> link, title |-> title, text |-> text, href |-> href]

\* the recommendation elements: one that two selectors match, one with a
\* title attribute, one whose link has no text, one with the URL of the
\* first under another title
LinkElements ==
    {LinkElement(<<"r", "e", "l", "a", "t", "e", "d", "_", "a", "r", "t", "i", "c", "l", "e">>, TRUE, <<>>, <<SP, "T", SP>>, ArticleUrl1),
     LinkElement(<<"r", "e", "c", "o", "m", "m", "e", "n", "d", "_", "l", "i", "s", "t">>, TRUE, <<"A">>, <<"B">>, ArticleUrl2),
     LinkElement(<<"r", "e", "l", "a", "t", "e", "d">>, TRUE, <<>>, <<SP>>, OtherUrl),
     LinkElement(<<"r", "e", "c", "o", "m", "m", "e", "n", "d", "_", "a", "r", "t", "i", "c", "l", "e">>, TRUE, <<>>, <<"U">>, ArticleUrl1)}

JsonItem(isdict, title, content_url) ==
    [dict |-> isdict, title |-> title, content_url |-> content_url]

\* the embedded items: one with a relative URL, one with a blank title,
\* one with an absolute URL
JsonItems ==
    {JsonItem(TRUE, <<"J">>, <<"/", "s", "/", "1">>),
     JsonItem(TRUE, <<SP>>, OtherUrl),
     JsonItem(TRUE, <<"K", SP>>, OtherUrl)}

\* the seeds: two article links and the link of a profile page
Seeds ==
    {ProfileHost \o <<"/", "s", "/", "x">>, ProfileHost \o <<"/", "s", "?", "x">>,
     ProfileHost \o <<"/", "p">>}

ListPages ==
    [fetch : {"ok"}, elements : SeqsUpTo(LinkElements, MaxLinks), items : SeqsUpTo(JsonItems, MaxLinks)]
    \cup [fetch : {"error"}, elements : {<<>>}, items : {<<>>}]

ListInit ==
    /\ lpc = "input"
    /\ profile_url \in Seeds
    /\ max_count \in 0..MaxCount
    /\ lpage \in ListPages
    /\ summaries = <<>>

\* parse_profile_articles, lines 43-51, with _parse_from_article_page and
\* _parse_from_profile_page
ParseProfileArticles ==
    /\ lpc = "input"
    /\ IF IsArticleLink(profile_url) /\ lpage.fetch = "ok"
       THEN /\ summaries' = FirstN(UniqueArticles(Discovered(lpage)), max_count)
            /\ lpc' = "returned"
       ELSE /\ summaries' = <<>>
            /\ lpc' = "raised"
    /\ UNCHANGED <<profile_url, max_count, lpage>>
    /\ UNCHANGED <<cleanVars, docVars, pipeVars, imgVars, nameVars, saveVars, resVars, guiVars, runVars>>

(***************************************************************************)
(* Properties of the article discovery.                                    *)
(***************************************************************************)
\* the place of the first summary of the discovery with that URL
FirstPlace(url) ==
    Min({i \in 1..Len(Discovered(lpage)) : Discovered(lpage)[i].url = url})

\* the URLs the discovery found
DiscoveredUrls == {Discovered(lpage)[i].url : i \in 1..Len(Discovered(lpage))}

RunUrlLists == {l \in ImageUrlLists : Range(l) \subseteq {AbsUrl, AmpUrl}}

RunResponses == {RespOk, RespNetworkError, RespBroken, RespCorrupt}

\* the images directory after a call of _download_image: open(filepath, 'wb')
\* makes the file or empties the one that is there, os.remove takes it away
Stored(dir, out, bytes) ==
    CASE out.left \in {"image", "partial"} ->
            [f \in (DOMAIN dir) \cup {out.path} |->
                IF f = out.path THEN [bytes |-> bytes, whole |-> out.left = "image"] ELSE dir[f]]
      [] out.left = "deleted" -> [f \in (DOMAIN dir) \ {out.path} |-> dir[f]]
      [] OTHER -> dir

RunsInit ==
    /\ opc = "ready"
    /\ conversion = 0
    /\ output_images = <<>>
    /\ run_urls = <<>>
    /\ run_next = 0
    /\ run_refs = {}
    /\ documents = <<>>

\* convert_to_markdown, lines 57-68: the images directory is made if it
\* is not there (exist_ok=True), and the loop starts at index 0
ConversionBegin ==
    /\ opc = "ready"
    /\ conversion < MaxRuns
    /\ run_urls' \in RunUrlLists
    /\ conversion' = conversion + 1
    /\ run_next' = 0
    /\ run_refs' = {}
    /\ opc' = "loop"
    /\ UNCHANGED <<output_images, documents>>
    /\ UNCHANGED <<cleanVars, docVars, pipeVars, imgVars, nameVars, saveVars, resVars, guiVars, listVars>>

\* _download_and_update_images, lines 99-126: one image
ConversionTurn ==
    /\ opc = "loop"
    /\ run_next < Len(run_urls)
    /\ \E resp \in RunResponses :
          LET out == DownloadImage(run_urls[run_next + 1], resp, run_next)
              bytes == <<conversion, run_next>>
          IN /\ output_images' = Stored(output_images, out, bytes)
             /\ run_refs' = IF out.filename # <<>>
                            THEN run_refs \cup {[path |-> out.filename, bytes |-> bytes]}
                            ELSE run_refs
    /\ run_next' = run_next + 1
    /\ UNCHANGED <<opc, conversion, run_urls, documents>>
    /\ UNCHANGED <<cleanVars, docVars, pipeVars, imgVars, nameVars, saveVars, resVars, guiVars, listVars>>

\* the loop is over, the markup is transcoded and the document saved
ConversionSaved ==
    /\ opc = "loop"
    /\ run_next = Len(run_urls)
    /\ documents' = Append(documents, run_refs)
    /\ opc' = "ready"
    /\ UNCHANGED <<conversion, output_images, run_urls, run_next, run_refs>>
    /\ UNCHANGED <<cleanVars, docVars, pipeVars, imgVars, nameVars, saveVars, resVars, guiVars, listVars>>

(***************************************************************************)
(* Properties of the conversions into one directory.                       *)
(***************************************************************************)
\* C28: after any sequence of conversions into one output directory,
\* every local image a saved document references is a file of the images
\* directory that holds, whole, the bytes downloaded for that document.
C28_ImagesKept ==
    \A d \in 1..Len(documents) :
        \A ref \in documents[d] :
            /\ ref.path \in DOMAIN output_images
            /\ output_images[ref.path] = [bytes |-> ref.bytes, whole |-> TRUE]

(***************************************************************************)
(* Specifications.                                                         *)
(***************************************************************************)
vars == <<cleanVars, docVars, pipeVars, imgVars, nameVars, saveVars, resVars, guiVars, listVars, runVars>>

CleanNext == CleanOnce \/ CleanTwice

InitClean == CleanInit /\ DocIdle /\ PipeIdle /\ ImagesIdle /\ NameIdle /\ SaveIdle /\ ResolveIdle /\ GuiIdle /\ ListIdle /\ RunsIdle

SpecClean == InitClean /\ [][CleanNext]_vars

DocNext == DocAddHeader \/ DocClean

InitDoc == DocInit /\ CleanIdle /\ PipeIdle /\ ImagesIdle /\ NameIdle /\ SaveIdle /\ ResolveIdle /\ GuiIdle /\ ListIdle /\ RunsIdle

SpecDoc == InitDoc /\ [][DocNext]_vars

SaveNext == SaveBegin \/ Probe \/ WriteFile

InitSave ==
    SaveInit /\ CleanIdle /\ DocIdle /\ PipeIdle /\ ImagesIdle /\ NameIdle /\ ResolveIdle /\ GuiIdle /\ ListIdle /\ RunsIdle

SpecSave == InitSave /\ [][SaveNext]_vars

NameNext == GenerateName

InitName ==
    NameInit /\ CleanIdle /\ DocIdle /\ PipeIdle /\ ImagesIdle /\ SaveIdle /\ ResolveIdle /\ GuiIdle /\ ListIdle /\ RunsIdle

SpecName == InitName /\ [][NameNext]_vars

ResolveNext == Resolve

InitResolve ==
    ResolveInit /\ CleanIdle /\ DocIdle /\ PipeIdle /\ ImagesIdle /\ NameIdle /\ SaveIdle /\ GuiIdle /\ ListIdle /\ RunsIdle

SpecResolve == InitResolve /\ [][ResolveNext]_vars

ImagesNext == ImagesTurn \/ ImagesReturn

InitImages == ImagesInit /\ CleanIdle /\ DocIdle /\ PipeIdle /\ NameIdle /\ SaveIdle /\ ResolveIdle /\ GuiIdle /\ ListIdle /\ RunsIdle

SpecImages == InitImages /\ [][ImagesNext]_vars

RunsNext == ConversionBegin \/ ConversionTurn \/ ConversionSaved

InitRuns ==
    RunsInit /\ CleanIdle /\ DocIdle /\ PipeIdle /\ ImagesIdle /\ NameIdle /\ SaveIdle /\ ResolveIdle
        /\ GuiIdle /\ ListIdle

SpecRuns == InitRuns /\ [][RunsNext]_vars

ListNext == ParseProfileArticles

InitList ==
    ListInit /\ CleanIdle /\ DocIdle /\ PipeIdle /\ ImagesIdle /\ NameIdle /\ SaveIdle /\ ResolveIdle
        /\ GuiIdle /\ RunsIdle

SpecList == InitList /\ [][ListNext]_vars

GuiNext ==
    \/ \E key \in {"button", "enter"} : StartCollection(key)
    \/ StopCollection
    \/ \E w \in 1..MaxWorkers : WorkerStep(w)
    \/ CollectionFinished
    \/ OnClosing

InitGui ==
    GuiInit /\ CleanIdle /\ DocIdle /\ PipeIdle /\ ImagesIdle /\ NameIdle /\ SaveIdle /\ ResolveIdle /\ ListIdle /\ RunsIdle

SpecGui == InitGui /\ [][GuiNext]_vars

\* the threads run, the loop over the images of an article comes to its
\* end, and the main loop runs its queued calls
SpecGuiFair ==
    /\ SpecGui
    /\ \A w \in 1..MaxWorkers : WF_vars(WorkerStep(w)) /\ WF_vars(TranscodeAll(w))
    /\ WF_vars(CollectionFinished)

Next ==
    \/ Fetch
    \/ ExtractFields
    \/ ExtractContent
    \/ ExtractImagesStep
    \/ BeginConvert
    \/ DownloadStep
    \/ Transcode
    \/ SaveArticle
    \/ Finish

Init == PipeInit /\ CleanIdle /\ DocIdle /\ ImagesIdle /\ NameIdle /\ SaveIdle /\ ResolveIdle /\ GuiIdle /\ ListIdle /\ RunsIdle

Spec == Init /\ [][Next]_vars

====
